---------------------------- MODULE Spec2Model ----------------------------
(***************************************************************************)
(* Cell formatting of Arrow data (format and its specialized formatters)   *)
(* as a state machine: a call is drawn in Init, the action of the called   *)
(* function computes its outcome.                                          *)
(*                                                                         *)
(* JavaScript strings are sequences of one-character strings, so that     *)
(* split, slice, padStart, trimEnd and startsWith are computed as the code *)
(* computes them.  An optional value (T | undefined) is the empty sequence *)
(* or a one-element sequence.                                              *)
(***************************************************************************)
EXTENDS Integers, Sequences, FiniteSets, TLC

\* ------------------------------------------------------------------ strings

Undefined == << >>
Some(v) == <<v>>
isNullOrUndefined(m) == m = << >>

DigitChars == <<"0", "1", "2", "3", "4", "5", "6", "7", "8", "9">>

RECURSIVE NatToStr(_)
NatToStr(n) ==
  IF n < 10 THEN <<DigitChars[n + 1]>>
  ELSE NatToStr(n \div 10) \o <<DigitChars[(n % 10) + 1]>>

RECURSIVE Repeat(_, _)
Repeat(c, n) == IF n <= 0 THEN << >> ELSE <<c>> \o Repeat(c, n - 1)

\* String.prototype.padStart(targetLength, padString) with a one-character pad
padStart(s, targetLength, c) == Repeat(c, targetLength - Len(s)) \o s

\* Zero-padded decimal field of a moment format token (MM, DD, HH, SSS, YYYY)
Pad(n, width) == padStart(NatToStr(n), width, "0")

startsWith(s, prefix) ==
  Len(s) >= Len(prefix) /\ SubSeq(s, 1, Len(prefix)) = prefix

\* s.slice(-n) for n > 0: the last n characters (the whole string if shorter)
sliceLast(s, n) == IF n >= Len(s) THEN s ELSE SubSeq(s, Len(s) - n + 1, Len(s))

\* s.slice(0, -n) for n > 0: all but the last n characters
sliceButLast(s, n) == IF n >= Len(s) THEN << >> ELSE SubSeq(s, 1, Len(s) - n)

\* lodash trimEnd(s, "0")
RECURSIVE trimEnd(_, _)
trimEnd(s, c) ==
  IF s # << >> /\ s[Len(s)] = c THEN trimEnd(SubSeq(s, 1, Len(s) - 1), c) ELSE s

\* Index of the first occurrence of character c in s, 0 when there is none
RECURSIVE IndexFrom(_, _, _)
IndexFrom(s, c, i) ==
  IF i > Len(s) THEN 0 ELSE IF s[i] = c THEN i ELSE IndexFrom(s, c, i + 1)

\* s.split("-", 2): at most the first two pieces
RECURSIVE SplitAll(_, _)
SplitAll(s, c) ==
  LET i == IndexFrom(s, c, 1) IN
  IF i = 0 THEN <<s>>
  ELSE <<SubSeq(s, 1, i - 1)>> \o SplitAll(SubSeq(s, i + 1, Len(s)), c)

split2(s, c) ==
  LET first2(all) == IF Len(all) > 2 THEN SubSeq(all, 1, 2) ELSE all
  IN first2(SplitAll(s, c))


RECURSIVE Join(_, _)
Join(parts, sep) ==
  IF parts = << >> THEN << >>
  ELSE IF Len(parts) = 1 THEN parts[1]
  ELSE parts[1] \o sep \o Join(Tail(parts), sep)

\* ----------------------------------------------------------------- integers
\* Integers beyond 32-bit machine integers (bigints, safe integers up
\* to 2^53 - 1, millisecond and nanosecond counts) are sequences of decimal
\* digits, most significant first, without leading zeros; zero is <<0>>.

RECURSIVE StripZeros(_)
StripZeros(d) == IF Len(d) > 1 /\ d[1] = 0 THEN StripZeros(Tail(d)) ELSE d

RECURSIVE NatDigits(_)
NatDigits(n) == IF n < 10 THEN <<n>> ELSE NatDigits(n \div 10) \o <<n % 10>>

\* The value of a digit sequence that fits a machine integer
RECURSIVE DigitsNat(_)
DigitsNat(d) ==
  IF d = << >> THEN 0 ELSE DigitsNat(SubSeq(d, 1, Len(d) - 1)) * 10 + d[Len(d)]

DigitsStr(d) == [i \in 1..Len(d) |-> DigitChars[d[i] + 1]]

BigLess(a, b) ==
  \/ Len(a) < Len(b)
  \/ /\ Len(a) = Len(b)
     /\ \E i \in 1..Len(a) : a[i] < b[i] /\ \A j \in 1..(i - 1) : a[j] = b[j]

BigLeq(a, b) == a = b \/ BigLess(a, b)

\* Schoolbook division of a digit sequence by 0 < k <= 200000000
RECURSIVE DivLoop(_, _, _, _)
DivLoop(d, k, i, rem) ==
  IF i > Len(d) THEN [q |-> << >>, r |-> rem]
  ELSE LET cur == rem * 10 + d[i]
           rest == DivLoop(d, k, i + 1, cur % k)
       IN [q |-> <<cur \div k>> \o rest.q, r |-> rest.r]

BigDivMod(d, k) ==
  LET stripped(x) == [q |-> StripZeros(x.q), r |-> x.r]
  IN stripped(DivLoop(d, k, 1, 0))

\* d * 10^n and floor(d / 10^n)
BigShiftLeft(d, n) == IF d = <<0>> THEN d ELSE d \o [i \in 1..n |-> 0]
BigShiftRight(d, n) == IF n >= Len(d) THEN <<0>> ELSE SubSeq(d, 1, Len(d) - n)
\* The last n digits of d, zero-padded on the left to n digits
BigLowDigits(d, n) ==
  IF n >= Len(d) THEN [i \in 1..(n - Len(d)) |-> 0] \o d
  ELSE SubSeq(d, Len(d) - n + 1, Len(d))

AllZero(d) == \A i \in 1..Len(d) : d[i] = 0

\* Signed integers are [neg, mag]; decimal fractions are [neg, mag, exp],
\* the value mag / 10^exp with its sign
SInt(n) == [neg |-> n < 0, mag |-> NatDigits(IF n < 0 THEN -n ELSE n)]
SBig(neg, mag) == [neg |-> neg, mag |-> mag]
Dec(neg, mag, exp) == [neg |-> neg, mag |-> mag, exp |-> exp]

SIntStr(b) == (IF b.neg /\ b.mag # <<0>> THEN <<"-">> ELSE << >>) \o DigitsStr(b.mag)

\* floor division of a signed integer by 0 < k <= 200000000: [q, r], both
\* machine integers, 0 <= r < k
SDivMod(b, k) ==
  LET floored(q, r) ==
        IF ~b.neg THEN [q |-> q, r |-> r]
        ELSE IF r = 0 THEN [q |-> -q, r |-> 0]
        ELSE [q |-> -q - 1, r |-> k - r]
      of(x) == floored(DigitsNat(x.q), x.r)
  IN of(BigDivMod(b.mag, k))

DecIsInteger(x) == AllZero(BigLowDigits(x.mag, x.exp))
\* The integer part of a decimal fraction, truncated toward zero
DecTrunc(x) == SBig(x.neg, BigShiftRight(x.mag, x.exp))
\* x / 10^n and x * 10^n
DecShiftRight(x, n) == Dec(x.neg, x.mag, x.exp + n)
DecShiftLeft(x, n) ==
  IF x.exp >= n THEN Dec(x.neg, x.mag, x.exp - n)
  ELSE Dec(x.neg, BigShiftLeft(x.mag, n - x.exp), 0)

\* Math.round(|x| / u) for 0 < u <= 100000000, a machine integer
DecRoundDiv(x, u) ==
  LET rounded(dm, frac) ==
        DigitsNat(dm.q)
          + (IF \/ 2 * dm.r >= u
                \/ 2 * dm.r = u - 1 /\ frac # << >> /\ frac[1] >= 5
             THEN 1 ELSE 0)
  IN rounded(BigDivMod(BigShiftRight(x.mag, x.exp), u), BigLowDigits(x.mag, x.exp))

\* ------------------------------------------------------------------- values
\* A cell value is a record [k, n, s, row]: k is the JavaScript kind and
\*   n    the numeric payload, a decimal fraction [neg, mag, exp]:
\*          number (finite)   the number
\*          bigint            the integer (exp = 0)
\*          Date              milliseconds since the epoch (exp = 0)
\*          Uint32Array       the integer its 128-bit little-endian buffer
\*                            encodes (exp = 0)
\*   s    the characters of a string
\*   row  <<left, right>>, the fields of a StructRow (an interval's row, a
\*        dictionary's fields), or the elements of an Array
\* k is one of null, undefined, number, NaN, Infinity, -Infinity (the last three
\* are numbers), bigint, Date, string, StructRow, Array, Uint32Array.

Zero == Dec(FALSE, <<0>>, 0)
Val(k, n, s, row) == [k |-> k, n |-> n, s |-> s, row |-> row]
Atom(k) == Val(k, Zero, << >>, << >>)

Null == Atom("null")
Undef == Atom("undefined")
NumDec(d) == Val("number", d, << >>, << >>)
\* The number h / 100
Num(h) == NumDec(Dec(h < 0, NatDigits(IF h < 0 THEN -h ELSE h), 2))
NaN == Atom("NaN")
PosInf == Atom("Infinity")
NegInf == Atom("-Infinity")
BigIntD(neg, mag) == Val("bigint", Dec(neg, mag, 0), << >>, << >>)
BigInt(n) == BigIntD(n < 0, NatDigits(IF n < 0 THEN -n ELSE n))
DateObj(neg, mag) == Val("Date", Dec(neg, mag, 0), << >>, << >>)
StrVal(s) == Val("string", Zero, s, << >>)
StructRow(l, r) == Val("StructRow", Zero, << >>, <<l, r>>)
Array(xs) == Val("Array", Zero, << >>, xs)
Uint32Array(n) == Val("Uint32Array", Dec(n < 0, NatDigits(IF n < 0 THEN -n ELSE n), 0), << >>, << >>)

isNullish(x) == x.k \in {"null", "undefined"}
\* Number.isFinite(x): true only of finite values of type number
NumberIsFinite(x) == x.k = "number"

\* Number.MAX_SAFE_INTEGER, 2^53 - 1
MAX_SAFE_INTEGER == <<9, 0, 0, 7, 1, 9, 9, 2, 5, 4, 7, 4, 0, 9, 9, 1>>

\* Number.prototype.toString of a decimal fraction: shortest decimal, no
\* exponent in the magnitudes used here (1e-6 <= |x| < 1e21)
NumToStr(d) ==
  LET withFraction(frac) ==
        (IF d.neg /\ ~AllZero(d.mag) THEN <<"-">> ELSE << >>)
          \o DigitsStr(BigShiftRight(d.mag, d.exp))
          \o (IF frac = << >> THEN << >> ELSE <<".">> \o frac)
  IN withFraction(trimEnd(DigitsStr(BigLowDigits(d.mag, d.exp)), "0"))

\* The four 32-bit words, least significant first, of the two's-complement
\* 128-bit encoding of an integer of magnitude below 2^31, as decimal strings
Words(b) ==
  LET low(hi, lo) == NatToStr(hi) \o Pad(lo, 5)
      negated(m, lo) ==
        IF lo < 0 THEN low(42949 - (m \div 100000) - 1, lo + 100000)
        ELSE low(42949 - (m \div 100000), lo)
      words(m) ==
        IF ~b.neg \/ m = 0
        THEN <<NatToStr(m), <<"0">>, <<"0">>, <<"0">>>>
        ELSE <<negated(m, 67296 - (m % 100000)), <<"4", "2", "9", "4", "9", "6", "7", "2", "9", "5">>, <<"4", "2", "9", "4", "9", "6", "7", "2", "9", "5">>, <<"4", "2", "9", "4", "9", "6", "7", "2", "9", "5">>>>
  IN words(DigitsNat(b.mag))

\* Number(x) as a decimal fraction when it is finite, Undefined when it is
\* NaN or infinite (the strings used as cell values here are not numeric)
NumberOf(x) ==
  CASE x.k = "number" -> Some(x.n)
    [] x.k \in {"bigint", "Date"} -> Some(x.n)
    [] OTHER -> Undefined

\* Number.isSafeInteger of a decimal fraction
NumberIsSafeInteger(d) ==
  DecIsInteger(d) /\ BigLeq(BigShiftRight(d.mag, d.exp), MAX_SAFE_INTEGER)

\* Number.isSafeInteger(Number(x))
isSafeIntegerValue(x) ==
  LET safe(n) == n # Undefined /\ NumberIsSafeInteger(n[1])
  IN safe(NumberOf(x))

\* ----------------------------------------------------------------- calendar
\* moment's proleptic Gregorian calendar arithmetic.  An instant of a wall
\* clock is [days, ms]: days since 1970-01-01 and milliseconds of the day.

daysFromCivil(y0, m, d) ==
  LET days(era, yoe, doy) == era * 146097 + (yoe * 365 + yoe \div 4 - yoe \div 100 + doy) - 719468
      ofYear(y, mp) == days(y \div 400, y % 400, (153 * mp + 2) \div 5 + d - 1)
  IN ofYear(IF m <= 2 THEN y0 - 1 ELSE y0, IF m > 2 THEN m - 3 ELSE m + 9)

civilFromDays(z0) ==
  LET civil(era, yoe, doy, mp) ==
        [y |-> (yoe + era * 400) + (IF mp < 10 THEN 0 ELSE 1),
         m |-> IF mp < 10 THEN mp + 3 ELSE mp - 9,
         d |-> doy - (153 * mp + 2) \div 5 + 1]
      ofDoy(era, yoe, doy) == civil(era, yoe, doy, (5 * doy + 2) \div 153)
      ofYoe(era, doe, yoe) == ofDoy(era, yoe, doe - (365 * yoe + yoe \div 4 - yoe \div 100))
      ofDoe(era, doe) ==
        ofYoe(era, doe, (doe - doe \div 1460 + doe \div 36524 - doe \div 146096) \div 365)
  IN ofDoe((z0 + 719468) \div 146097, (z0 + 719468) % 146097)

MsPerDay == 86400000

Instant(days, ms) == [days |-> days, ms |-> ms]

\* The instant n units of unitMs milliseconds after the instant t, for a
\* signed integer n and a unit that divides the day
addUnits(t, n, unitMs) ==
  LET carried(q, ms) == Instant(t.days + q + ms \div MsPerDay, ms % MsPerDay)
      of(dm) == carried(dm.q, t.ms + dm.r * unitMs)
  IN of(SDivMod(n, MsPerDay \div unitMs))

\* The calendar fields of an instant
Fields(t) ==
  LET of(c) ==
        [y |-> c.y, m |-> c.m, d |-> c.d,
         H |-> t.ms \div 3600000, mi |-> (t.ms \div 60000) % 60,
         s |-> (t.ms \div 1000) % 60, ms |-> t.ms % 1000,
         dow |-> (t.days + 4) % 7]
  IN of(civilFromDays(t.days))

\* moment#add(n, "M") for a machine integer n
addMonths(t, n) ==
  LET at(tot, d) == Instant(daysFromCivil(tot \div 12, (tot % 12) + 1, d), t.ms)
      of(c) == at(c.y * 12 + (c.m - 1) + n, c.d)
  IN of(civilFromDays(t.days))

\* moment#endOf("quarter"): the last millisecond of the quarter
endOfQuarter(t) ==
  LET before(next) == Instant(next.days - 1, MsPerDay - 1)
      of(c) ==
        before(addMonths(Instant(daysFromCivil(c.y, ((c.m - 1) \div 3) * 3 + 1, 1), 0), 3))
  IN of(civilFromDays(t.days))

\* The YYYY token: the year zero-filled to four digits, signed when negative
fmtYYYY(f) == IF f.y < 0 THEN <<"-">> \o Pad(-f.y, 4) ELSE Pad(f.y, 4)
fmtDate(f) == fmtYYYY(f) \o <<"-">> \o Pad(f.m, 2) \o <<"-">> \o Pad(f.d, 2)
fmtHHmm(f) == Pad(f.H, 2) \o <<":">> \o Pad(f.mi, 2)
fmtHHmmss(f) == fmtHHmm(f) \o <<":">> \o Pad(f.s, 2)
fmtSSS(f) == <<".">> \o Pad(f.ms, 3)

\* ------------------------------------------------------------ ambient state
\* The time zone of the process (the TZ of its environment), which
\* moment(string, format) and Date.prototype.toString read.
VARIABLE zone

LocalZones == {"UTC", "America/New_York"}

\* Minutes east of UTC in standard time
standardOffset(z) == IF z = "America/New_York" THEN -300 ELSE 0

InstantLeq(a, b) == a.days < b.days \/ (a.days = b.days /\ a.ms <= b.ms)

\* America/New_York kept daylight saving time in 1970 from 1970-04-26 07:00
\* UTC until 1970-10-25 06:00 UTC; the instants of other years that the
\* inputs reach are in winter.
inDaylightTime(z, utc) ==
  /\ z = "America/New_York"
  /\ InstantLeq(Instant(daysFromCivil(1970, 4, 26), 7 * 3600000), utc)
  /\ ~InstantLeq(Instant(daysFromCivil(1970, 10, 25), 6 * 3600000), utc)

localOffset(z, utc) == standardOffset(z) + (IF inDaylightTime(z, utc) THEN 60 ELSE 0)

\* The wall clock of zone z at the UTC instant
toLocal(z, utc) == addUnits(utc, SInt(localOffset(z, utc)), 60000)

\* The UTC instant at which the wall clock of zone z shows 1970-01-01 00:00
localMidnight1970(z) == addUnits(Instant(0, 0), SInt(-standardOffset(z)), 60000)

dayNames == <<<<"S", "u", "n">>, <<"M", "o", "n">>, <<"T", "u", "e">>, <<"W", "e", "d">>, <<"T", "h", "u">>, <<"F", "r", "i">>, <<"S", "a", "t">>>>
monthNames == <<<<"J", "a", "n">>, <<"F", "e", "b">>, <<"M", "a", "r">>, <<"A", "p", "r">>, <<"M", "a", "y">>, <<"J", "u", "n">>,
                <<"J", "u", "l">>, <<"A", "u", "g">>, <<"S", "e", "p">>, <<"O", "c", "t">>, <<"N", "o", "v">>, <<"D", "e", "c">>>>

zoneName(z, daylight) ==
  CASE z = "America/New_York" /\ daylight -> <<"E", "a", "s", "t", "e", "r", "n", " ", "D", "a", "y", "l", "i", "g", "h", "t", " ", "T", "i", "m", "e">>
    [] z = "America/New_York" /\ ~daylight -> <<"E", "a", "s", "t", "e", "r", "n", " ", "S", "t", "a", "n", "d", "a", "r", "d", " ", "T", "i", "m", "e">>
    [] OTHER -> <<"C", "o", "o", "r", "d", "i", "n", "a", "t", "e", "d", " ", "U", "n", "i", "v", "e", "r", "s", "a", "l", " ", "T", "i", "m", "e">>

\* Date.prototype.toString of a valid Date of ms milliseconds, in the
\* process's zone: "Thu Jan 01 1970 00:00:00 GMT+0000 (Coordinated Universal Time)"
dateToString(ms) ==
  LET gmt(off) ==
        (IF off < 0 THEN <<"-">> ELSE <<"+">>)
          \o Pad((IF off < 0 THEN -off ELSE off) \div 60, 2)
          \o Pad((IF off < 0 THEN -off ELSE off) % 60, 2)
      text(f, off, daylight) ==
        dayNames[f.dow + 1] \o <<" ">> \o monthNames[f.m] \o <<" ">> \o Pad(f.d, 2) \o <<" ">>
          \o fmtYYYY(f) \o <<" ">> \o fmtHHmmss(f) \o <<" ", "G", "M", "T">> \o gmt(off)
          \o <<" ", "(">> \o zoneName(zone, daylight) \o <<")">>
      at(utc) == text(Fields(toLocal(zone, utc)), localOffset(zone, utc),
                      inDaylightTime(zone, utc))
      of(dm) == at(Instant(dm.q, dm.r))
  IN of(SDivMod(ms, MsPerDay))

\* String(x), for every kind of cell value.  Date.prototype.toString prints
\* the time of the process's local zone.
RECURSIVE String(_)
String(x) ==
  CASE x.k = "null" -> <<"n", "u", "l", "l">>
    [] x.k = "undefined" -> <<"u", "n", "d", "e", "f", "i", "n", "e", "d">>
    [] x.k = "number" -> NumToStr(x.n)
    [] x.k = "NaN" -> <<"N", "a", "N">>
    [] x.k = "Infinity" -> <<"I", "n", "f", "i", "n", "i", "t", "y">>
    [] x.k = "-Infinity" -> <<"-", "I", "n", "f", "i", "n", "i", "t", "y">>
    [] x.k = "bigint" -> SIntStr(x.n)
    [] x.k = "Date" -> dateToString(x.n)
    [] x.k = "string" -> x.s
    [] x.k = "StructRow" ->
         <<"{", "\"", "l", "e", "f", "t", "\"", ":", " ">> \o String(x.row[1]) \o <<",", " ", "\"", "r", "i", "g", "h", "t", "\"", ":", " ">>
           \o String(x.row[2]) \o <<"}">>
    [] x.k = "Array" ->
         Join([i \in 1..Len(x.row) |-> IF isNullish(x.row[i]) THEN << >> ELSE String(x.row[i])],
              <<",">>)
    [] x.k = "Uint32Array" -> Join(Words(x.n), <<",">>)

\* A Date holds at most 8.64e15 milliseconds either side of the epoch, which
\* is 100,000,000 days; moment prints "Invalid date" beyond
MaxDateDays == 100000000
InvalidDate == <<"I", "n", "v", "a", "l", "i", "d", " ", "d", "a", "t", "e">>

\* ----------------------------------------------------------------- outcomes
\* The outcome of a call: the string returned, or the number returned by a
\* function that returns one (or thrown = TRUE when an exception escapes), the
\* formatters entered, in call order, the units handed to the unit converter,
\* in call order, and the number of logWarning calls.

Ok(s) == [thrown |-> FALSE, str |-> s, num |-> Undef, calls |-> << >>, units |-> << >>, warns |-> 0]
Throw == [Ok(<< >>) EXCEPT !.thrown = TRUE]
\* The outcome of a function that returns a number
Returned(v) == [Ok(<< >>) EXCEPT !.num = v]
\* The outcome r of a computation that handed unit to convertTimestampToSeconds
Converted(unit, r) == [r EXCEPT !.units = <<unit>> \o @]
Called(name, r) == [r EXCEPT !.calls = <<name>> \o @]
Warned(r) == [r EXCEPT !.warns = @ + 1]

\* --------------------------------------------------------- period formatters
\* moment("19700101", "YYYYMMDD") is 1970-01-01 00:00 on the wall clock of the
\* process's zone.  add() of days, weeks, months, quarters and years is
\* calendar arithmetic on that wall clock; add() of hours, minutes, seconds
\* and milliseconds moves the instant, which format() then reads on the wall
\* clock of the zone (afterUnits).

WEEKDAY_SHORT == <<<<"S", "U", "N">>, <<"M", "O", "N">>, <<"T", "U", "E">>, <<"W", "E", "D">>, <<"T", "H", "U">>, <<"F", "R", "I">>, <<"S", "A", "T">>>>

\* Array.prototype.indexOf, zero-based, -1 when absent
indexOf(arr, e) ==
  IF \E i \in 1..Len(arr) : arr[i] = e
  THEN (CHOOSE i \in 1..Len(arr) : arr[i] = e /\ \A j \in 1..(i - 1) : arr[j] # e) - 1
  ELSE -1

Epoch == Instant(0, 0)

\* Whether adding n units of unitMs milliseconds to the epoch stays a valid Date
validUnits(n, unitMs) ==
  BigLeq(n.mag, BigShiftLeft(NatDigits(MsPerDay \div unitMs), 8))

\* Whether adding n * mult months to the epoch stays a valid Date
validMonths(n, mult) ==
  /\ BigLeq(n.mag, NatDigits(4000000 \div mult))
  /\ LET inRange(d) == d <= MaxDateDays /\ d >= -MaxDateDays
     IN inRange(addMonths(Epoch, (IF n.neg THEN -1 ELSE 1) * DigitsNat(n.mag) * mult).days)

\* The wall clock of the process's zone n units of unitMs milliseconds after
\* its 1970-01-01 00:00
afterUnits(n, unitMs) == toLocal(zone, addUnits(localMidnight1970(zone), n, unitMs))

SignedNat(n) == (IF n.neg THEN -1 ELSE 1) * DigitsNat(n.mag)

formatMs(duration) ==
  IF ~validUnits(duration, 1) THEN Ok(InvalidDate)
  ELSE LET fmt(f) == Ok(fmtDate(f) \o <<" ">> \o fmtHHmmss(f) \o fmtSSS(f))
       IN fmt(Fields(afterUnits(duration, 1)))

formatSec(duration) ==
  IF ~validUnits(duration, 1000) THEN Ok(InvalidDate)
  ELSE LET fmt(f) == Ok(fmtDate(f) \o <<" ">> \o fmtHHmmss(f))
       IN fmt(Fields(afterUnits(duration, 1000)))

formatMin(duration) ==
  IF ~validUnits(duration, 60000) THEN Ok(InvalidDate)
  ELSE LET fmt(f) == Ok(fmtDate(f) \o <<" ">> \o fmtHHmm(f))
       IN fmt(Fields(afterUnits(duration, 60000)))

formatHours(duration) ==
  IF ~validUnits(duration, 3600000) THEN Ok(InvalidDate)
  ELSE LET fmt(f) == Ok(fmtDate(f) \o <<" ">> \o fmtHHmm(f))
       IN fmt(Fields(afterUnits(duration, 3600000)))

formatDay(duration) ==
  IF ~validUnits(duration, MsPerDay) THEN Ok(InvalidDate)
  ELSE Ok(fmtDate(Fields(addUnits(Epoch, duration, MsPerDay))))

formatMonth(duration) ==
  IF ~validMonths(duration, 1) THEN Ok(InvalidDate)
  ELSE LET fmt(f) == Ok(fmtYYYY(f) \o <<"-">> \o Pad(f.m, 2))
       IN fmt(Fields(addMonths(Epoch, SignedNat(duration))))

formatYear(duration) ==
  IF ~validMonths(duration, 12) THEN Ok(InvalidDate)
  ELSE Ok(fmtYYYY(Fields(addMonths(Epoch, 12 * SignedNat(duration)))))

formatWeeks(duration, freqParam) ==
  IF freqParam = Undefined \/ freqParam[1] = << >> THEN Throw
  ELSE
    LET range(startDay, endDay) ==
          Ok(fmtDate(Fields(Instant(startDay, 0))) \o <<"/">> \o fmtDate(Fields(Instant(endDay, 0))))
        \* .day(n) moves to day n of the week the date is in, Sunday being 0
        week(base, dayIndex) ==
          range(base - ((base + 4) % 7) + (dayIndex - 6), base - ((base + 4) % 7) + dayIndex)
        of(dayIndex) ==
          IF dayIndex < 0 THEN Throw
          ELSE IF ~BigLeq(duration.mag, NatDigits(MaxDateDays \div 7 - 1)) THEN
            Ok(InvalidDate \o <<"/">> \o InvalidDate)
          ELSE week(7 * SignedNat(duration), dayIndex)
    IN of(indexOf(WEEKDAY_SHORT, freqParam[1]))

formatQuarter(duration) ==
  IF ~validMonths(duration, 3) THEN Ok(InvalidDate)
  ELSE LET fmt(f) == Ok(fmtYYYY(f) \o <<"Q">> \o NatToStr((f.m - 1) \div 3 + 1))
       IN fmt(Fields(endOfQuarter(addMonths(Epoch, 3 * SignedNat(duration)))))

\* PERIOD_TYPE_FORMATTERS[freqName]: the name of the function found, or
\* "undefined".  A property read on an object literal also finds what the
\* literal inherits.
PERIOD_TYPE_FORMATTERS(freqName) ==
  CASE freqName \in {<<"L">>, <<"m", "s">>} -> "formatMs"
    [] freqName \in {<<"S">>, <<"s">>} -> "formatSec"
    [] freqName \in {<<"T">>, <<"m", "i", "n">>} -> "formatMin"
    [] freqName \in {<<"H">>, <<"h">>} -> "formatHours"
    [] freqName = <<"D">> -> "formatDay"
    [] freqName = <<"M">> -> "formatMonth"
    [] freqName = <<"W">> -> "formatWeeks"
    [] freqName = <<"Q">> -> "formatQuarter"
    [] freqName \in {<<"Y">>, <<"A">>} -> "formatYear"
    [] freqName = <<"t", "o", "S", "t", "r", "i", "n", "g">> -> "Object.prototype.toString"
    [] freqName = <<"v", "a", "l", "u", "e", "O", "f">> -> "Object.prototype.valueOf"
    [] OTHER -> "undefined"

\* momentConverter(durationNumber, freqParam), a plain call (this = undefined)
callConverter(converter, durationNumber, freqParam) ==
  Called(converter,
    CASE converter = "formatMs" -> formatMs(durationNumber)
      [] converter = "formatSec" -> formatSec(durationNumber)
      [] converter = "formatMin" -> formatMin(durationNumber)
      [] converter = "formatHours" -> formatHours(durationNumber)
      [] converter = "formatDay" -> formatDay(durationNumber)
      [] converter = "formatMonth" -> formatMonth(durationNumber)
      [] converter = "formatWeeks" -> formatWeeks(durationNumber, freqParam)
      [] converter = "formatQuarter" -> formatQuarter(durationNumber)
      [] converter = "formatYear" -> formatYear(durationNumber)
      [] converter = "Object.prototype.toString" -> Ok(<<"[", "o", "b", "j", "e", "c", "t", " ", "U", "n", "d", "e", "f", "i", "n", "e", "d", "]">>)
      [] converter = "Object.prototype.valueOf" -> Throw)

FrequencyFormatters ==
  {"formatMs", "formatSec", "formatMin", "formatHours", "formatDay",
   "formatMonth", "formatWeeks", "formatQuarter", "formatYear"}

\* freq is the parsed metadata's freq property: undefined when the JSON has none
formatPeriodFromFreq(duration, freq) ==
  IF freq = Undefined THEN Throw
  ELSE
    LET convert(momentConverter, freqParam) ==
          IF momentConverter = "undefined" THEN Warned(Ok(String(duration)))
          ELSE IF ~isSafeIntegerValue(duration) THEN Warned(Ok(String(duration)))
          ELSE callConverter(momentConverter, DecTrunc(NumberOf(duration)[1]), freqParam)
        of(parts) ==
          convert(PERIOD_TYPE_FORMATTERS(parts[1]),
                  IF Len(parts) > 1 THEN Some(parts[2]) ELSE Undefined)
    IN of(split2(freq[1], "-"))


\* ------------------------------------------------------------------- fields
\* An Arrow Field: its type (class, unit, timezone, scale, children) and the
\* two extension entries of its metadata map.  The extension metadata text is
\* held by what JSON.parse makes of it: json = FALSE for text that does not
\* parse, else the properties the code destructures.

TimeUnit_SECOND == 0
TimeUnit_MILLISECOND == 1
TimeUnit_MICROSECOND == 2
TimeUnit_NANOSECOND == 3

FieldType(cls, unit, timezone, scale, children) ==
  [cls |-> cls, unit |-> unit, timezone |-> timezone, scale |-> scale,
   children |-> children]

PlainType(cls) == FieldType(cls, Undefined, Undefined, Undefined, << >>)

MkField(type, extName, extMeta) ==
  [type |-> type, extName |-> extName, extMeta |-> extMeta]

BadJson == [json |-> FALSE, freq |-> Undefined, subtype |-> Undefined, closed |-> Undefined]
PeriodMeta(freq) ==
  [json |-> TRUE, freq |-> freq, subtype |-> Undefined, closed |-> Undefined]
IntervalMeta(subtype, closed) ==
  [json |-> TRUE, freq |-> Undefined, subtype |-> subtype, closed |-> closed]

\* field?.type?.unit and the like
fieldUnit(field) == IF field = Undefined THEN Undefined ELSE field[1].type.unit
fieldTimezone(field) == IF field = Undefined THEN Undefined ELSE field[1].type.timezone
fieldScale(field) == IF field = Undefined THEN Undefined ELSE field[1].type.scale
fieldCls(field) == IF field = Undefined THEN "undefined" ELSE field[1].type.cls
\* field && field.metadata.get("ARROW:extension:name")
fieldExtName(field) == IF field = Undefined THEN Undefined ELSE field[1].extName
\* (field.type as Struct)?.children?.[i], i zero-based
fieldChild(field, i) ==
  IF Len(field[1].type.children) > i THEN Some(field[1].type.children[i + 1])
  ELSE Undefined

\* ------------------------------------------------------------ time and date

\* Number(x) as a number value
ToNumber(x) ==
  CASE x.k \in {"number", "NaN", "Infinity", "-Infinity"} -> x
    [] x.k \in {"bigint", "Date"} -> NumDec(x.n)
    [] OTHER -> NaN

\* x / 10^n of a number value
NumberShiftRight(x, n) == IF x.k = "number" THEN NumDec(DecShiftRight(x.n, n)) ELSE x

convertTimestampToSeconds_NoAdjustment(timestamp, unit) == ToNumber(timestamp)

convertTimestampToSeconds_FloatDivision(timestamp, unit) ==
  CASE unit = TimeUnit_MILLISECOND -> NumberShiftRight(ToNumber(timestamp), 3)
    [] unit = TimeUnit_MICROSECOND -> NumberShiftRight(ToNumber(timestamp), 6)
    [] unit = TimeUnit_NANOSECOND -> NumberShiftRight(ToNumber(timestamp), 9)
    [] OTHER -> ToNumber(timestamp)

\* The result is a number value; timestamp is a number or a bigint.  Numbers
\* are exact decimal fractions: the rounding of a quotient to a double is not
\* modelled.
convertTimestampToSeconds(timestamp, unit) ==
  LET adjusted(unitAdjustment) ==
        IF timestamp.k = "bigint" /\ ~isSafeIntegerValue(timestamp)
          THEN NumDec(Dec(timestamp.n.neg, BigShiftRight(timestamp.n.mag, unitAdjustment), 0))
        ELSE NumberShiftRight(ToNumber(timestamp), unitAdjustment)
  IN
  CASE unit = TimeUnit_MILLISECOND -> adjusted(3)
    [] unit = TimeUnit_MICROSECOND -> adjusted(6)
    [] unit = TimeUnit_NANOSECOND -> adjusted(9)
    [] OTHER -> ToNumber(timestamp)

\* Whether a signed count of milliseconds is a valid Date
validMs(ms) == BigLeq(ms.mag, BigShiftLeft(NatDigits(MsPerDay), 8))
\* The UTC instant of a valid Date
instantOfMs(ms) ==
  LET of(dm) == Instant(dm.q, dm.r) IN of(SDivMod(ms, MsPerDay))

formatTime_AlwaysMillis(timestamp, field) ==
  LET fmt(f) == Ok(fmtHHmmss(f) \o fmtSSS(f))
      at(ms) == IF ~validMs(ms) THEN Ok(InvalidDate) ELSE fmt(Fields(instantOfMs(ms)))
      of(timeInSeconds) == at(DecTrunc(DecShiftLeft(timeInSeconds.n, 3)))
      with(unit) == Converted(unit, of(convertTimestampToSeconds(timestamp, unit)))
  IN with(IF fieldUnit(field) = Undefined THEN TimeUnit_SECOND ELSE fieldUnit(field)[1])

\* format passes Number(x), a number
formatTime(timestamp, field) ==
  LET fmt(f, whole) == Ok(IF whole THEN fmtHHmmss(f) ELSE fmtHHmmss(f) \o fmtSSS(f))
      at(ms, whole) ==
        IF ~validMs(ms) THEN Ok(InvalidDate) ELSE fmt(Fields(instantOfMs(ms)), whole)
      of(timeInSeconds) ==
        at(DecTrunc(DecShiftLeft(timeInSeconds.n, 3)), DecIsInteger(timeInSeconds.n))
      with(unit) == Converted(unit, of(convertTimestampToSeconds(timestamp, unit)))
  IN with(IF fieldUnit(field) = Undefined THEN TimeUnit_SECOND ELSE fieldUnit(field)[1])

\* The milliseconds of a Date or of a finite number handed to moment.utc
dateMs(date) == IF date.k = "Date" THEN date.n ELSE DecTrunc(date.n)

formatDate(date) ==
  IF date.k = "Date" \/ NumberIsFinite(date)
  THEN LET fmt(ms) ==
             IF validMs(ms) THEN Ok(fmtDate(Fields(instantOfMs(ms)))) ELSE Ok(InvalidDate)
       IN fmt(dateMs(date))
  ELSE Warned(Ok(String(date)))

\* moment.tz.zone(name): the zones of the tz database the inputs use, with
\* their UTC offset in minutes (zones without daylight saving time)
KnownZones == {"UTC", "Asia/Kolkata"}
zoneOffset(tz) == IF tz = "Asia/Kolkata" THEN 330 ELSE 0

\* moment#utcOffset(string): the offset a "+HH:mm" / "+HHmm" string names, 0
\* for a string that names none (the moment is left in UTC)
offsetFromString(tz) ==
  CASE tz = "+0500" -> 300
    [] tz = "-03:30" -> -210
    [] OTHER -> 0

\* The Z token: sign, hours, ":", minutes
fmtZ(off) ==
  LET hhmm(a) == Pad(a \div 60, 2) \o <<":">> \o Pad(a % 60, 2) IN
  (IF off < 0 THEN <<"-">> ELSE <<"+">>) \o hhmm(IF off < 0 THEN -off ELSE off)

formatDatetime_NoZoneLookup(date, field) ==
  LET fmt(f) == fmtDate(f) \o <<" ">> \o fmtHHmmss(f)
      shifted(datetime, off) ==
        Ok(fmt(Fields(addUnits(datetime, SInt(off), 60000))) \o fmtZ(off))
      in(datetime, timezone) ==
        IF timezone # Undefined /\ timezone[1] # ""
        THEN shifted(datetime, offsetFromString(timezone[1]))
        ELSE Ok(fmt(Fields(datetime)))
      of(utc) ==
        IF ~validMs(utc) THEN Ok(InvalidDate) ELSE in(instantOfMs(utc), fieldTimezone(field))
  IN of(dateMs(date))

formatDatetime(date, field) ==
  LET fmt(f) == fmtDate(f) \o <<" ">> \o fmtHHmmss(f)
      shifted(datetime, off) ==
        Ok(fmt(Fields(addUnits(datetime, SInt(off), 60000))) \o fmtZ(off))
      in(datetime, timezone) ==
        IF timezone # Undefined /\ timezone[1] # ""
        THEN shifted(datetime,
                     IF timezone[1] \in KnownZones THEN zoneOffset(timezone[1])
                     ELSE offsetFromString(timezone[1]))
        ELSE Ok(fmt(Fields(datetime)))
      of(utc) ==
        IF ~validMs(utc) THEN Ok(InvalidDate) ELSE in(instantOfMs(utc), fieldTimezone(field))
  IN of(dateMs(date))

\* moment.duration(seconds, "seconds").humanize(), English locale, default
\* thresholds (ss 44, s 45, m 45, h 22, d 26, M 11); a month is 2629746
\* seconds and a year 31556952 seconds (146097 days per 400 years)
humanize(sec) ==
  LET years(days, months, n) ==
        CASE days >= 26 /\ months <= 1 -> <<"a", " ", "m", "o", "n", "t", "h">>
          [] days >= 26 /\ months > 1 /\ months < 11 -> NatToStr(months) \o <<" ", "m", "o", "n", "t", "h", "s">>
          [] days >= 26 /\ months >= 11 /\ n <= 1 -> <<"a", " ", "y", "e", "a", "r">>
          [] OTHER -> NatToStr(n) \o <<" ", "y", "e", "a", "r", "s">>
      days(hours, n) ==
        CASE hours >= 22 /\ n <= 1 -> <<"a", " ", "d", "a", "y">>
          [] hours >= 22 /\ n > 1 /\ n < 26 -> NatToStr(n) \o <<" ", "d", "a", "y", "s">>
          [] OTHER -> years(n, DecRoundDiv(sec, 2629746), DecRoundDiv(sec, 31556952))
      hours(minutes, n) ==
        CASE minutes >= 45 /\ n <= 1 -> <<"a", "n", " ", "h", "o", "u", "r">>
          [] minutes >= 45 /\ n > 1 /\ n < 22 -> NatToStr(n) \o <<" ", "h", "o", "u", "r", "s">>
          [] OTHER -> days(n, DecRoundDiv(sec, 86400))
      minutes(seconds, n) ==
        CASE seconds >= 45 /\ n <= 1 -> <<"a", " ", "m", "i", "n", "u", "t", "e">>
          [] seconds >= 45 /\ n > 1 /\ n < 45 -> NatToStr(n) \o <<" ", "m", "i", "n", "u", "t", "e", "s">>
          [] OTHER -> hours(n, DecRoundDiv(sec, 3600))
      seconds(n) ==
        CASE n <= 44 -> <<"a", " ", "f", "e", "w", " ", "s", "e", "c", "o", "n", "d", "s">>
          [] n > 44 /\ n < 45 -> NatToStr(n) \o <<" ", "s", "e", "c", "o", "n", "d", "s">>
          [] OTHER -> minutes(n, DecRoundDiv(sec, 60))
  IN
  IF Len(BigShiftRight(sec.mag, sec.exp)) > 9
  THEN NatToStr(DecRoundDiv(sec, 31556952)) \o <<" ", "y", "e", "a", "r", "s">>
  ELSE seconds(DecRoundDiv(sec, 1))

formatDuration_SecondsByDefault(duration, field) ==
  LET of(seconds) == IF seconds.k = "number" THEN Ok(humanize(seconds.n)) ELSE Ok(InvalidDate)
      with(unit) == Converted(unit, of(convertTimestampToSeconds(duration, unit)))
  IN with(IF fieldUnit(field) = Undefined THEN TimeUnit_SECOND ELSE fieldUnit(field)[1])

formatDuration(duration, field) ==
  LET of(seconds) == IF seconds.k = "number" THEN Ok(humanize(seconds.n)) ELSE Ok(InvalidDate)
      with(unit) == Converted(unit, of(convertTimestampToSeconds(duration, unit)))
  IN with(IF fieldUnit(field) = Undefined THEN TimeUnit_NANOSECOND ELSE fieldUnit(field)[1])

\* ------------------------------------------------------------------ decimal

\* util.bigNumToString(new util.BN(value)): the decimal digits of the integer
\* the buffer encodes, with a leading "-" when it is negative
bigNumToString(value) == SIntStr(value.n)

formatDecimal_KeepsTrailingZeros(value, field) ==
  LET parts(sign, wholePart, decimalPart) ==
        Ok(sign \o (IF wholePart = << >> THEN <<"0">> ELSE wholePart) \o
           (IF decimalPart # << >> THEN <<".">> \o decimalPart ELSE << >>))
      split(sign, numString, scale) ==
        parts(sign, sliceButLast(numString, scale), sliceLast(numString, scale))
      padded(numString, scale) ==
        IF scale = 0 THEN Ok(numString)
        ELSE IF startsWith(numString, <<"-">>) THEN split(<<"-">>, Tail(numString), scale)
        ELSE split(<< >>, numString, scale)
      of(scale) == padded(padStart(bigNumToString(value), scale, "0"), scale)
  IN of(IF fieldScale(field) = Undefined THEN 0 ELSE fieldScale(field)[1])

formatDecimal(value, field) ==
  LET parts(sign, wholePart, decimalPart) ==
        Ok(sign \o (IF wholePart = << >> THEN <<"0">> ELSE wholePart) \o
           (IF decimalPart # << >> THEN <<".">> \o decimalPart ELSE << >>))
      split(sign, numString, scale) ==
        parts(sign, sliceButLast(numString, scale), trimEnd(sliceLast(numString, scale), "0"))
      padded(numString, scale) ==
        IF scale = 0 THEN Ok(numString)
        ELSE IF startsWith(numString, <<"-">>) THEN split(<<"-">>, Tail(numString), scale)
        ELSE split(<< >>, numString, scale)
      of(scale) == padded(padStart(bigNumToString(value), scale, "0"), scale)
  IN of(IF fieldScale(field) = Undefined THEN 0 ELSE fieldScale(field)[1])

\* ------------------------------------------------------------------- period

\* formatPeriod without its guard on an absent field: reading the extension
\* name of no field raises
formatPeriod_UnguardedField(duration, field) ==
  IF isNullOrUndefined(field) THEN Throw
  ELSE
    LET extensionName == field[1].extName
        extensionMetadata == field[1].extMeta
    IN
    IF isNullOrUndefined(extensionName) \/ isNullOrUndefined(extensionMetadata)
      THEN Warned(Ok(String(duration)))
    ELSE IF extensionName[1] # "pandas.period" THEN Warned(Ok(String(duration)))
    ELSE IF ~extensionMetadata[1].json THEN Throw
    ELSE Called("formatPeriodFromFreq",
                formatPeriodFromFreq(duration, extensionMetadata[1].freq))

formatPeriod(duration, field) ==
  IF isNullOrUndefined(field) THEN Warned(Ok(String(duration)))
  ELSE
    LET extensionName == field[1].extName
        extensionMetadata == field[1].extMeta
    IN
    IF isNullOrUndefined(extensionName) \/ isNullOrUndefined(extensionMetadata)
      THEN Warned(Ok(String(duration)))
    ELSE IF extensionName[1] # "pandas.period" THEN Warned(Ok(String(duration)))
    ELSE IF ~extensionMetadata[1].json THEN Throw
    ELSE Called("formatPeriodFromFreq",
                formatPeriodFromFreq(duration, extensionMetadata[1].freq))

\* ------------------------------------------------------------------- object

\* Date.prototype.toJSON
toISOString(ms) ==
  LET fmt(f) == fmtDate(f) \o <<"T">> \o fmtHHmmss(f) \o fmtSSS(f) \o <<"Z">>
  IN fmt(Fields(instantOfMs(ms)))

Quoted(s) == <<"\"">> \o s \o <<"\"">>

\* JSON.stringify's serialization of a value after the replacer has seen it;
\* Undefined when the replacer or the value itself yields undefined.  dropNull
\* is the struct replacer's null filter; both replacers turn a bigint into a
\* number.  A property whose value is undefined is left out of its object
\* (jsonProp); an array element whose value is undefined is written as null
\* (jsonElement).
RECURSIVE jsonValue(_, _)

jsonProps(props) ==
  <<"{">> \o Join(props, <<",">>) \o <<"}">>

jsonProp(key, x, dropNull) ==
  LET prop(v) == IF v = Undefined THEN << >> ELSE <<Quoted(key) \o <<":">> \o v[1]>>
  IN prop(jsonValue(x, dropNull))

jsonElement(x, dropNull) ==
  LET element(v) == IF v = Undefined THEN <<"n", "u", "l", "l">> ELSE v[1]
  IN element(jsonValue(x, dropNull))

jsonValue(x, dropNull) ==
  CASE x.k = "undefined" -> Undefined
    [] x.k = "null" -> IF dropNull THEN Undefined ELSE Some(<<"n", "u", "l", "l">>)
    [] x.k = "number" -> Some(NumToStr(x.n))
    [] x.k \in {"NaN", "Infinity", "-Infinity"} -> Some(<<"n", "u", "l", "l">>)
    [] x.k = "bigint" -> Some(NumToStr(x.n))
    [] x.k = "Date" -> Some(Quoted(toISOString(x.n)))
    [] x.k = "string" -> Some(Quoted(x.s))
    [] x.k = "StructRow" ->
         Some(jsonProps(jsonProp(<<"l", "e", "f", "t">>, x.row[1], dropNull)
                          \o jsonProp(<<"r", "i", "g", "h", "t">>, x.row[2], dropNull)))
    [] x.k = "Array" ->
         Some(<<"[">> \o Join([i \in 1..Len(x.row) |-> jsonElement(x.row[i], dropNull)], <<",">>)
                \o <<"]">>)
    [] x.k = "Uint32Array" ->
         LET indexed(words) ==
               jsonProps([i \in 1..4 |-> Quoted(<<DigitChars[i]>>) \o <<":">> \o words[i]])
         IN Some(indexed(Words(x.n)))

\* The value is an object or a non-null leaf here, so that the result is a
\* string
JSONstringify(x, dropNull) == jsonValue(x, dropNull)[1]

formatObject_NeverFilters(object, field) ==
  Ok(JSONstringify(object, FALSE))

formatObject(object, field) ==
  Ok(JSONstringify(object, fieldCls(field) = "Struct"))

\* -------------------------------------------------------------------- float

\* Digits grouped in threes from the right, separated by ","
RECURSIVE group3(_)
group3(digits) ==
  IF Len(digits) <= 3 THEN digits
  ELSE group3(SubSeq(digits, 1, Len(digits) - 3)) \o <<",">>
         \o SubSeq(digits, Len(digits) - 2, Len(digits))

\* The "0.0000" format: four decimals, no thousands separator
numbroFormat_Ungrouped(d) ==
  (IF d.neg /\ ~AllZero(d.mag) THEN <<"-">> ELSE << >>)
     \o DigitsStr(BigShiftRight(d.mag, d.exp))
     \o <<".">> \o DigitsStr(BigLowDigits(d.mag, d.exp)) \o Repeat("0", 4 - d.exp)

\* numbro(num).format("0,0.0000") of a number with at most four decimals
numbroFormat(d) ==
  (IF d.neg /\ ~AllZero(d.mag) THEN <<"-">> ELSE << >>)
     \o group3(DigitsStr(BigShiftRight(d.mag, d.exp)))
     \o <<".">> \o DigitsStr(BigLowDigits(d.mag, d.exp)) \o Repeat("0", 4 - d.exp)

formatFloat(num) ==
  IF ~NumberIsFinite(num) THEN Ok(String(num)) ELSE Ok(numbroFormat(num.n))


\* ------------------------------------------------------- interval and format
\* A Type is [pandas_type, numpy_type], each an optional string.

MkType(pandas_type, numpy_type) ==
  [pandas_type |-> pandas_type, numpy_type |-> numpy_type]

\* A classifier that reads the storage type alone
getTypeName_StorageOnly(type) == type.numpy_type

\* A classifier that reads the logical type alone
getTypeName_LogicalOnly(type) == type.pandas_type

\* getTypeName of arrowTypeUtils: the numpy type of the columns pandas types
\* as "object" (period, decimal, timedelta, dictionary, interval), the pandas
\* type of every other
getTypeName(type) ==
  IF type.pandas_type = Some(<<"o", "b", "j", "e", "c", "t">>) THEN type.numpy_type ELSE type.pandas_type

\* typeName === name
typeIs(typeName, name) == typeName = Some(name)
\* typeName?.startsWith(prefix), undefined counting as false
typeStartsWith(typeName, prefix) ==
  typeName # Undefined /\ startsWith(typeName[1], prefix)

\* Two outcomes in sequence: the second is not evaluated when the first throws
Then(a, b) ==
  IF a.thrown THEN a
  ELSE [thrown |-> b.thrown,
        str |-> IF b.thrown THEN << >> ELSE a.str \o b.str,
        num |-> Undef,
        calls |-> a.calls \o b.calls, units |-> a.units \o b.units,
        warns |-> a.warns + b.warns]

RECURSIVE format(_, _, _)

\* formatInterval with the two bracket tests exchanged
formatInterval_BracketsSwapped(x, field) ==
  LET extensionName == fieldExtName(field) IN
  IF extensionName # Undefined /\ extensionName[1] = "pandas.interval"
  THEN
    LET extensionMetadata == field[1].extMeta IN
    IF extensionMetadata = Undefined \/ ~extensionMetadata[1].json THEN Throw
    ELSE IF x.k \notin {"StructRow", "Date"} THEN Throw
    ELSE
      LET subtype == extensionMetadata[1].subtype
          closed == extensionMetadata[1].closed
          left == IF x.k = "StructRow" THEN x.row[1] ELSE Undef
          right == IF x.k = "StructRow" THEN x.row[2] ELSE Undef
          leftBracket ==
            IF closed = Some("both") \/ closed = Some("right") THEN <<"[">> ELSE <<"(">>
          rightBracket ==
            IF closed = Some("both") \/ closed = Some("left") THEN <<"]">> ELSE <<")">>
          leftInterval ==
            Called("format", format(left, Some(MkType(subtype, subtype)), fieldChild(field, 0)))
          rightInterval ==
            Called("format", format(right, Some(MkType(subtype, subtype)), fieldChild(field, 1)))
      IN Then(Ok(leftBracket),
              Then(leftInterval, Then(Ok(<<",", " ">>), Then(rightInterval, Ok(rightBracket)))))
  ELSE Ok(String(x))

\* formatInterval handing the first child field to both bounds
formatInterval_FirstChildForBoth(x, field) ==
  LET extensionName == fieldExtName(field) IN
  IF extensionName # Undefined /\ extensionName[1] = "pandas.interval"
  THEN
    LET extensionMetadata == field[1].extMeta IN
    IF extensionMetadata = Undefined \/ ~extensionMetadata[1].json THEN Throw
    ELSE IF x.k \notin {"StructRow", "Date"} THEN Throw
    ELSE
      LET subtype == extensionMetadata[1].subtype
          closed == extensionMetadata[1].closed
          left == IF x.k = "StructRow" THEN x.row[1] ELSE Undef
          right == IF x.k = "StructRow" THEN x.row[2] ELSE Undef
          leftBracket ==
            IF closed = Some("both") \/ closed = Some("left") THEN <<"[">> ELSE <<"(">>
          rightBracket ==
            IF closed = Some("both") \/ closed = Some("right") THEN <<"]">> ELSE <<")">>
          leftInterval ==
            Called("format", format(left, Some(MkType(subtype, subtype)), fieldChild(field, 0)))
          rightInterval ==
            Called("format", format(right, Some(MkType(subtype, subtype)), fieldChild(field, 0)))
      IN Then(Ok(leftBracket),
              Then(leftInterval, Then(Ok(<<",", " ">>), Then(rightInterval, Ok(rightBracket)))))
  ELSE Ok(String(x))

\* formatInterval parsing the extension metadata before it looks at the
\* extension name
formatInterval_ParsesFirst(x, field) ==
  IF field = Undefined \/ field[1].extMeta = Undefined \/ ~field[1].extMeta[1].json
  THEN Throw
  ELSE Ok(String(x))

formatInterval(x, field) ==
  LET extensionName == fieldExtName(field) IN
  IF extensionName # Undefined /\ extensionName[1] = "pandas.interval"
  THEN
    LET extensionMetadata == field[1].extMeta IN
    IF extensionMetadata = Undefined \/ ~extensionMetadata[1].json THEN Throw
    ELSE IF x.k \notin {"StructRow", "Date"} THEN Throw
    ELSE
      LET subtype == extensionMetadata[1].subtype
          closed == extensionMetadata[1].closed
          left == IF x.k = "StructRow" THEN x.row[1] ELSE Undef
          right == IF x.k = "StructRow" THEN x.row[2] ELSE Undef
          leftBracket ==
            IF closed = Some("both") \/ closed = Some("left") THEN <<"[">> ELSE <<"(">>
          rightBracket ==
            IF closed = Some("both") \/ closed = Some("right") THEN <<"]">> ELSE <<")">>
          leftInterval ==
            Called("format", format(left, Some(MkType(subtype, subtype)), fieldChild(field, 0)))
          rightInterval ==
            Called("format", format(right, Some(MkType(subtype, subtype)), fieldChild(field, 1)))
      IN Then(Ok(leftBracket),
              Then(leftInterval, Then(Ok(<<",", " ">>), Then(rightInterval, Ok(rightBracket)))))
  ELSE Ok(String(x))

\* format testing for null only after the period rule
format_NullAfterPeriod(x, type, field) ==
  LET typeName == IF type = Undefined THEN Undefined ELSE getTypeName(type[1])
      extensionName == fieldExtName(field)
      fieldType == fieldCls(field)
      isDate == x.k = "Date" \/ NumberIsFinite(x)
  IN
  IF isDate /\ typeIs(typeName, <<"d", "a", "t", "e">>)
    THEN Called("formatDate", formatDate(x))
  ELSE IF x.k = "bigint" /\ typeIs(typeName, <<"t", "i", "m", "e">>)
    THEN Called("formatTime", formatTime(ToNumber(x), field))
  ELSE IF isDate /\ (typeStartsWith(typeName, <<"d", "a", "t", "e", "t", "i", "m", "e">>) \/ fieldType = "Timestamp")
    THEN Called("formatDatetime", formatDatetime(x, field))
  ELSE IF typeStartsWith(typeName, <<"p", "e", "r", "i", "o", "d">>) \/ extensionName = Some("pandas.period")
    THEN Called("formatPeriod", formatPeriod(x, field))
  ELSE IF isNullish(x) THEN Called("NA", Ok(<<"<", "N", "A", ">">>))
  ELSE IF typeStartsWith(typeName, <<"i", "n", "t", "e", "r", "v", "a", "l">>)
    THEN Called("formatInterval", formatInterval(x, field))
  ELSE IF typeStartsWith(typeName, <<"t", "i", "m", "e", "d", "e", "l", "t", "a">>)
    THEN Called("formatDuration", formatDuration(x, field))
  ELSE IF typeIs(typeName, <<"d", "e", "c", "i", "m", "a", "l">>)
    THEN Called("formatDecimal", formatDecimal(x, field))
  ELSE IF (typeIs(typeName, <<"f", "l", "o", "a", "t", "6", "4">>) \/ fieldType = "Float") /\ NumberIsFinite(x)
    THEN Called("formatFloat", formatFloat(x))
  ELSE IF typeIs(typeName, <<"o", "b", "j", "e", "c", "t">>) \/ typeStartsWith(typeName, <<"l", "i", "s", "t">>)
    THEN Called("formatObject", formatObject(x, field))
  ELSE Called("String", Ok(String(x)))

\* format consulting the period rule only after the decimal rule
format_PeriodAfterDecimal(x, type, field) ==
  LET typeName == IF type = Undefined THEN Undefined ELSE getTypeName(type[1])
      extensionName == fieldExtName(field)
      fieldType == fieldCls(field)
      isDate == x.k = "Date" \/ NumberIsFinite(x)
  IN
  IF isNullish(x) THEN Called("NA", Ok(<<"<", "N", "A", ">">>))
  ELSE IF isDate /\ typeIs(typeName, <<"d", "a", "t", "e">>)
    THEN Called("formatDate", formatDate(x))
  ELSE IF x.k = "bigint" /\ typeIs(typeName, <<"t", "i", "m", "e">>)
    THEN Called("formatTime", formatTime(ToNumber(x), field))
  ELSE IF isDate /\ (typeStartsWith(typeName, <<"d", "a", "t", "e", "t", "i", "m", "e">>) \/ fieldType = "Timestamp")
    THEN Called("formatDatetime", formatDatetime(x, field))
  ELSE IF typeStartsWith(typeName, <<"i", "n", "t", "e", "r", "v", "a", "l">>)
    THEN Called("formatInterval", formatInterval(x, field))
  ELSE IF typeStartsWith(typeName, <<"t", "i", "m", "e", "d", "e", "l", "t", "a">>)
    THEN Called("formatDuration", formatDuration(x, field))
  ELSE IF typeIs(typeName, <<"d", "e", "c", "i", "m", "a", "l">>)
    THEN Called("formatDecimal", formatDecimal(x, field))
  ELSE IF typeStartsWith(typeName, <<"p", "e", "r", "i", "o", "d">>) \/ extensionName = Some("pandas.period")
    THEN Called("formatPeriod", formatPeriod(x, field))
  ELSE IF (typeIs(typeName, <<"f", "l", "o", "a", "t", "6", "4">>) \/ fieldType = "Float") /\ NumberIsFinite(x)
    THEN Called("formatFloat", formatFloat(x))
  ELSE IF typeIs(typeName, <<"o", "b", "j", "e", "c", "t">>) \/ typeStartsWith(typeName, <<"l", "i", "s", "t">>)
    THEN Called("formatObject", formatObject(x, field))
  ELSE Called("String", Ok(String(x)))

format(x, type, field) ==
  LET typeName == IF type = Undefined THEN Undefined ELSE getTypeName(type[1])
      extensionName == fieldExtName(field)
      fieldType == fieldCls(field)
      isDate == x.k = "Date" \/ NumberIsFinite(x)
  IN
  IF isNullish(x) THEN Called("NA", Ok(<<"<", "N", "A", ">">>))
  ELSE IF isDate /\ typeIs(typeName, <<"d", "a", "t", "e">>)
    THEN Called("formatDate", formatDate(x))
  ELSE IF x.k = "bigint" /\ typeIs(typeName, <<"t", "i", "m", "e">>)
    THEN Called("formatTime", formatTime(ToNumber(x), field))
  ELSE IF isDate /\ (typeStartsWith(typeName, <<"d", "a", "t", "e", "t", "i", "m", "e">>) \/ fieldType = "Timestamp")
    THEN Called("formatDatetime", formatDatetime(x, field))
  ELSE IF typeStartsWith(typeName, <<"p", "e", "r", "i", "o", "d">>) \/ extensionName = Some("pandas.period")
    THEN Called("formatPeriod", formatPeriod(x, field))
  ELSE IF typeStartsWith(typeName, <<"i", "n", "t", "e", "r", "v", "a", "l">>)
    THEN Called("formatInterval", formatInterval(x, field))
  ELSE IF typeStartsWith(typeName, <<"t", "i", "m", "e", "d", "e", "l", "t", "a">>)
    THEN Called("formatDuration", formatDuration(x, field))
  ELSE IF typeIs(typeName, <<"d", "e", "c", "i", "m", "a", "l">>)
    THEN Called("formatDecimal", formatDecimal(x, field))
  ELSE IF (typeIs(typeName, <<"f", "l", "o", "a", "t", "6", "4">>) \/ fieldType = "Float") /\ NumberIsFinite(x)
    THEN Called("formatFloat", formatFloat(x))
  ELSE IF typeIs(typeName, <<"o", "b", "j", "e", "c", "t">>) \/ typeStartsWith(typeName, <<"l", "i", "s", "t">>)
    THEN Called("formatObject", formatObject(x, field))
  ELSE Called("String", Ok(String(x)))
\* ------------------------------------------------- type predicates, timezone
\* arrowTypeUtils: the predicates are derived from the normalized type name
\* and explicit allow-lists; the timezone is read off the type's metadata.

\* A boolean returned by a predicate
Bool(b) == Atom(IF b THEN "true" ELSE "false")

SignedIntegerNames == {<<"i", "n", "t", "8">>, <<"i", "n", "t", "1", "6">>, <<"i", "n", "t", "3", "2">>, <<"i", "n", "t", "6", "4">>}
UnsignedIntegerNames == {<<"u", "i", "n", "t", "8">>, <<"u", "i", "n", "t", "1", "6">>, <<"u", "i", "n", "t", "3", "2">>, <<"u", "i", "n", "t", "6", "4">>}
T_range == <<"r", "a", "n", "g", "e">>

\* A predicate that reads the storage type, whatever the logical type
isIntegerType_OfStorage(type) ==
  type.numpy_type # Undefined
  /\ type.numpy_type[1] \in SignedIntegerNames \cup UnsignedIntegerNames \cup {T_range}

isUnsignedIntegerType(type) ==
  LET in(name) == name # Undefined /\ name[1] \in UnsignedIntegerNames
  IN in(getTypeName(type))

isIntegerType(type) ==
  LET in(name) == name # Undefined /\ name[1] \in SignedIntegerNames \cup {T_range}
  IN in(getTypeName(type)) \/ isUnsignedIntegerType(type)

\* A type with the metadata pandas attaches to it: meta is absent, or an
\* object whose timezone is absent or a string
MkTypeMeta(pandas_type, numpy_type, meta) ==
  [pandas_type |-> pandas_type, numpy_type |-> numpy_type, meta |-> meta]
MkMeta(timezone) == [timezone |-> timezone]

\* A resolver that answers only for the zones it knows
getTimezone_Validated(type) ==
  IF type.meta # Undefined /\ type.meta[1].timezone # Undefined
     /\ type.meta[1].timezone[1] \in {<<"U", "T", "C">>, <<"A", "m", "e", "r", "i", "c", "a", "/", "N", "e", "w", "_", "Y", "o", "r", "k">>}
  THEN type.meta[1].timezone ELSE Undefined

\* type.meta?.timezone
getTimezone(type) ==
  IF type.meta = Undefined THEN Undefined ELSE type.meta[1].timezone
\* ------------------------------------------------------------------- inputs

MaxUnscaled == 120
MaxScale == 3
MaxDuration == 6

T_date == <<"d", "a", "t", "e">>
T_time == <<"t", "i", "m", "e">>
T_datetime == <<"d", "a", "t", "e", "t", "i", "m", "e">>
T_datetime64 == <<"d", "a", "t", "e", "t", "i", "m", "e", "6", "4", "[", "n", "s", "]">>
T_datetimetz == <<"d", "a", "t", "e", "t", "i", "m", "e", "t", "z">>
T_period == <<"p", "e", "r", "i", "o", "d", "[", "Y", "-", "D", "E", "C", "]">>
T_interval == <<"i", "n", "t", "e", "r", "v", "a", "l", "[", "i", "n", "t", "6", "4", ",", " ", "b", "o", "t", "h", "]">>
T_timedelta == <<"t", "i", "m", "e", "d", "e", "l", "t", "a", "6", "4", "[", "n", "s", "]">>
T_decimal == <<"d", "e", "c", "i", "m", "a", "l">>
T_float64 == <<"f", "l", "o", "a", "t", "6", "4">>
T_object == <<"o", "b", "j", "e", "c", "t">>
T_list == <<"l", "i", "s", "t", "[", "i", "n", "t", "6", "4", "]">>
T_int64 == <<"i", "n", "t", "6", "4">>
T_unicode == <<"u", "n", "i", "c", "o", "d", "e">>
T_categorical == <<"c", "a", "t", "e", "g", "o", "r", "i", "c", "a", "l">>
T_int8 == <<"i", "n", "t", "8">>

\* Columns as pandas describes them: [pandas_type, numpy_type]
Types ==
  {MkType(Some(t), Some(t)) :
     t \in {T_date, T_time, T_datetime64, T_float64, T_int64, T_list}}
  \cup {MkType(Some(T_object), Some(t)) :
     t \in {T_period, T_interval, T_timedelta, T_decimal, T_object, T_int64}}
  \cup {MkType(Some(T_datetime), Some(T_datetime64)),
        MkType(Some(T_datetimetz), Some(T_datetime64)),
        MkType(Some(T_unicode), Some(T_object)),
        MkType(Some(T_categorical), Some(T_int8))}

MaybeTypes == {Undefined} \cup {Some(t) : t \in Types}

TwoPow53 == <<9, 0, 0, 7, 1, 9, 9, 2, 5, 4, 7, 4, 0, 9, 9, 2>>

Scalars ==
  {Null, Undef, NaN, PosInf, NegInf,
   Num(0), Num(100), Num(500), Num(150), Num(-5), Num(123450), Num(-123456700),
   NumDec(Dec(FALSE, <<1, 0, 0, 0, 0, 0, 0, 0, 0, 0, 0, 0, 0, 0, 0, 0, 0>>, 0)),
   BigInt(0), BigInt(5), BigInt(3661), BigInt(1500), BigInt(-1), BigInt(86399999), BigIntD(FALSE, MAX_SAFE_INTEGER),
   BigIntD(FALSE, TwoPow53),
   DateObj(FALSE, <<0>>), DateObj(FALSE, <<9, 5, 1, 8, 2, 7, 6, 9, 6, 7, 8, 9>>), DateObj(TRUE, <<1, 0, 0, 0>>),
   StrVal(<<"a", "b", "c">>)}

Rows ==
  {StructRow(Num(100), Num(500)), StructRow(Null, Num(150)),
   StructRow(Num(123450), Undef), StructRow(BigInt(5), BigIntD(FALSE, TwoPow53)),
   StructRow(DateObj(FALSE, <<0>>), DateObj(FALSE, <<9, 5, 1, 8, 2, 7, 6, 9, 6, 7, 8, 9>>)), StructRow(NaN, PosInf)}

Buffers == {Uint32Array(n) : n \in {0, 5, -5, 123450, -123450}}

\* Dictionaries and lists with null padding inside
Nested ==
  {StructRow(StructRow(Null, Num(100)), StructRow(Undef, Null)),
   StructRow(Null, Array(<<Num(100), Null, BigInt(5)>>)),
   Array(<<Null, StructRow(Undef, BigInt(5))>>),
   Array(<<Array(<<Undef>>), StrVal(<<"a", "b", "c">>)>>)}

Values == Scalars \cup Rows \cup Buffers \cup Nested

Freqs ==
  {<<"Y">>, <<"A">>, <<"Y", "-", "D", "E", "C">>, <<"Q">>, <<"Q", "-", "D", "E", "C">>, <<"M">>, <<"W", "-", "S", "U", "N">>, <<"W", "-", "T", "H", "U">>, <<"D">>,
   <<"H">>, <<"h">>, <<"T">>, <<"m", "i", "n">>, <<"S">>, <<"s">>, <<"L">>, <<"m", "s">>,
   <<"W">>, <<"W", "-">>, <<"W", "-", "F", "O", "O">>, <<"W", "-", "S", "U", "N", "-", "X">>, <<"Z">>, <<"N">>, <<"B">>, << >>,
   <<"t", "o", "S", "t", "r", "i", "n", "g">>, <<"v", "a", "l", "u", "e", "O", "f">>}

PeriodMetas == {PeriodMeta(Some(f)) : f \in Freqs} \cup {PeriodMeta(Undefined)}

Subtypes == {Some(T_int64), Some(T_float64), Some(T_datetime64), Some(T_interval), Undefined}
Closeds == {Some("left"), Some("right"), Some("both"), Some("neither"), Undefined}

IntervalMetas == {IntervalMeta(s, c) : s \in Subtypes, c \in Closeds}

Units == {Undefined, Some(TimeUnit_SECOND), Some(TimeUnit_MILLISECOND),
          Some(TimeUnit_MICROSECOND), Some(TimeUnit_NANOSECOND), Some(7)}
Timezones == {Undefined, Some(""), Some("UTC"), Some("Asia/Kolkata"), Some("+0500"),
              Some("-03:30"), Some("Mars/Olympus")}
Scales == {Undefined} \cup {Some(n) : n \in 0..MaxScale}

NoExt(type) == MkField(type, Undefined, Undefined)

ChildFields ==
  {NoExt(PlainType("Int")), NoExt(PlainType("Float")),
   NoExt(FieldType("Timestamp", Some(TimeUnit_NANOSECOND), Undefined, Undefined, << >>))}

StructTypes ==
  {PlainType("Struct")}
  \cup {FieldType("Struct", Undefined, Undefined, Undefined, <<c, d>>) :
          c \in ChildFields, d \in ChildFields}
  \cup {FieldType("Struct", Undefined, Undefined, Undefined, <<c>>) : c \in ChildFields}

PlainFieldTypes ==
  {PlainType("Int"), PlainType("Float"), PlainType("Utf8")}
  \cup {FieldType("Timestamp", Some(TimeUnit_NANOSECOND), tz, Undefined, << >>) : tz \in Timezones}
  \cup {FieldType(cls, u, Undefined, Undefined, << >>) : cls \in {"Time", "Duration"}, u \in Units}
  \cup {FieldType("Decimal", Undefined, Undefined, sc, << >>) : sc \in Scales}
  \cup StructTypes

ExtNames == {Undefined, Some("pandas.period"), Some("pandas.interval"), Some("other.ext")}
ExtMetas ==
  {Undefined, Some(BadJson)}
  \cup {Some(PeriodMeta(f)) : f \in {Some(<<"Y">>), Some(<<"W">>), Some(<<"Z">>), Undefined}}
  \cup {Some(IntervalMeta(Some(T_int64), Some("both")))}

\* Fields of every storage class, with and without extension entries
GeneralFields ==
  {Undefined}
  \cup {Some(NoExt(t)) : t \in PlainFieldTypes}
  \cup {Some(MkField(t, n, m)) :
          t \in {PlainType("Int"), PlainType("Float"), PlainType("Struct"),
                 FieldType("Timestamp", Some(TimeUnit_NANOSECOND), Undefined, Undefined, << >>)},
          n \in ExtNames, m \in ExtMetas}

\* The fields of a period column: int64 storage, the period extension
PeriodFields ==
  {Some(MkField(PlainType("Int"), Some("pandas.period"), Some(m))) : m \in PeriodMetas}

\* The fields of an interval column: struct storage, the interval extension
IntervalFields ==
  {Some(MkField(t, Some("pandas.interval"), Some(m))) : t \in StructTypes, m \in IntervalMetas}
  \cup {Some(MkField(t, Some("pandas.interval"), m)) :
          t \in StructTypes, m \in {Undefined, Some(BadJson)}}

DecimalFields ==
  {Some(NoExt(FieldType("Decimal", Undefined, Undefined, sc, << >>))) : sc \in Scales}

Durations ==
  {BigInt(n) : n \in (-MaxDuration)..MaxDuration}
  \cup {BigInt(2880), BigIntD(FALSE, TwoPow53), BigIntD(TRUE, TwoPow53),
        BigIntD(FALSE, MAX_SAFE_INTEGER), Num(300), Num(150), NaN}

MkCall(fn, x, type, field, freq) ==
  [fn |-> fn, x |-> x, type |-> type, field |-> field, freq |-> freq, unit |-> Undefined]

\* Timestamps handed to the unit converter: numbers, bigints within the safe
\* range, and bigints beyond it that a double holds exactly
Timestamps ==
  {Num(0), Num(100000), Num(150), Num(-250000), Num(366100),
   BigInt(1000), BigInt(1000000000), BigInt(1500), BigInt(-1500), BigInt(86399),
   BigIntD(FALSE, MAX_SAFE_INTEGER), BigIntD(TRUE, MAX_SAFE_INTEGER),
   BigIntD(FALSE, TwoPow53), BigIntD(TRUE, TwoPow53),
   BigIntD(FALSE, <<9, 0, 0, 7, 1, 9, 9, 2, 5, 4, 7, 4, 2, 9, 9, 4>>), BigIntD(TRUE, <<9, 0, 0, 7, 1, 9, 9, 2, 5, 4, 7, 4, 2, 9, 9, 4>>),
   BigIntD(FALSE, <<1, 8, 0, 1, 4, 3, 9, 8, 5, 0, 9, 4, 8, 1, 9, 8, 4>>)}

\* Unit codes: the four of TimeUnit and codes outside it
UnitCodes == {TimeUnit_SECOND, TimeUnit_MILLISECOND, TimeUnit_MICROSECOND, TimeUnit_NANOSECOND,
              4, 7, -1}

MkConvert(x, unit) ==
  [MkCall("convertTimestampToSeconds", x, Undefined, Undefined, Undefined)
     EXCEPT !.unit = Some(unit)]

\* A decimal column's cells are buffers (or null)
BufferIfDecimal(x, type) ==
  (type # Undefined /\ getTypeName(type[1]) = Some(T_decimal))
     => x.k \in {"Uint32Array", "null", "undefined"}


T_Period == Some(MkType(Some(T_object), Some(T_period)))
T_Interval == Some(MkType(Some(T_object), Some(T_interval)))
T_Decimal == Some(MkType(Some(T_object), Some(T_decimal)))
T_Int64 == Some(MkType(Some(T_int64), Some(T_int64)))

\* ------------------------------------------------------- state of the hooks
\* format and the type utilities: see the state machine below.
VARIABLES call, ret, pc, prior

\* useVegaEmbed: the refs vegaView, vegaFinalizer, defaultDataName, dataRef
\* and datasetsRef and the state error; views: the views embed has created, in
\* creation order, a view being named by its position (0 is null); loaded:
\* the data and datasets most recently loaded into the current view; pending:
\* the calls of createView and updateView suspended at an await; updateCall:
\* a call of updateData by itself.
VARIABLES vegaView, vegaFinalizer, defaultDataName, dataRef, datasetsRef, error,
          views, loaded, pending, updateCall

\* useTableSizer: the arguments of the latest render and the state
\* resizableSize.
VARIABLES sizerProps, resizableSize

\* useSubmitFormViaEnterKey: the hook's arguments with the keyboard event, and
\* the calls the handler made, in order.
VARIABLES keyEvent, keyCalls

\* useOnInputChange: the hook's arguments with the change event, and the
\* state behind setDirty, setUiValue and setValueWithSource.
VARIABLES changeEvent, dirty, uiValue, valueWithSource

formatVars == <<call, ret, pc, prior, zone>>
embedVars ==
  <<vegaView, vegaFinalizer, defaultDataName, dataRef, datasetsRef, error,
    views, loaded, pending, updateCall>>
sizerVars == <<sizerProps, resizableSize>>
keyVars == <<keyEvent, keyCalls>>
inputVars == <<changeEvent, dirty, uiValue, valueWithSource>>
hookVars == <<embedVars, sizerVars, keyVars, inputVars>>

DEFAULT_DATA_NAME == "source"

\* What a view holds: the Quiver of the default dataset, or null, and the
\* named datasets
Loaded(data, datasets) == [data |-> data, datasets |-> datasets]
NothingLoaded == Loaded(Undefined, << >>)

\* No chart is mounted
EmbedIdle ==
  /\ vegaView = 0
  /\ vegaFinalizer = 0
  /\ defaultDataName = DEFAULT_DATA_NAME
  /\ dataRef = Undefined
  /\ datasetsRef = << >>
  /\ error = FALSE
  /\ views = << >>
  /\ loaded = NothingLoaded
  /\ pending = << >>
  /\ updateCall = Undefined

\* No table is mounted
SizerIdle == sizerProps = Undefined /\ resizableSize = Undefined

\* No key was pressed
KeyIdle == keyEvent = Undefined /\ keyCalls = << >>

\* No input is mounted
InputIdle ==
  /\ changeEvent = Undefined
  /\ dirty = FALSE
  /\ uiValue = << >>
  /\ valueWithSource = Undefined

HooksIdle == EmbedIdle /\ SizerIdle /\ KeyIdle /\ InputIdle
\* -------------------------------------------------------------- state machine
\* call: the pending or completed call; ret: the outcome of the latest call
\* (of call itself once pc = "done"); prior: the outcome of an earlier call
\* with the arguments of call, if there was one; zone: the process's zone.

vars == <<formatVars, hookVars>>

NoRet == Ok(<< >>)

\* No cell is being formatted
FormatIdle ==
  /\ call = Undefined
  /\ ret = NoRet
  /\ pc = "idle"
  /\ prior = Undefined
  /\ zone = "UTC"

\* format(x, type, field) on cells of every kind against every type and field
InitGeneral ==
  \E x \in Values, t \in MaybeTypes, f \in GeneralFields :
    /\ BufferIfDecimal(x, t)
    /\ call = MkCall("format", x, t, f, Undefined)

\* format on the cells of a decimal column
InitDecimal ==
  \E n \in (-MaxUnscaled)..MaxUnscaled, f \in DecimalFields \cup {Undefined} :
    call = MkCall("format", Uint32Array(n), T_Decimal, f, Undefined)

\* format on the cells of a period column
InitPeriod ==
  \E x \in Durations, t \in {T_Period, T_Int64}, f \in PeriodFields :
    call = MkCall("format", x, t, f, Undefined)

\* format on the cells of an interval column
InitInterval ==
  \E x \in Rows, f \in IntervalFields :
    call = MkCall("format", x, T_Interval, f, Undefined)

\* formatPeriodFromFreq(duration, freq), the exported entry
InitPeriodFromFreq ==
  \E x \in Durations, fr \in Freqs :
    call = MkCall("formatPeriodFromFreq", x, Undefined, Undefined, Some(fr))

\* convertTimestampToSeconds(timestamp, unit), the exported entry
InitConvert ==
  \E x \in Timestamps, u \in UnitCodes :
    call = MkConvert(x, u)

\* format on cells of every kind against every type, without a field
InitNoField ==
  \E x \in Scalars, t \in MaybeTypes :
    call = MkCall("format", x, t, Undefined, Undefined)

Init ==
  /\ pc = "call"
  /\ ret = NoRet
  /\ prior = Undefined
  /\ zone \in LocalZones
  /\ HooksIdle
  /\ \/ InitGeneral
     \/ InitDecimal
     \/ InitPeriod
     \/ InitInterval
     \/ InitPeriodFromFreq
     \/ InitConvert

Format ==
  /\ pc = "call"
  /\ call.fn = "format"
  /\ ret' = format(call.x, call.type, call.field)
  /\ pc' = "done"
  /\ UNCHANGED <<call, prior, zone, hookVars>>

FormatPeriodFromFreq ==
  /\ pc = "call"
  /\ call.fn = "formatPeriodFromFreq"
  /\ ret' = Called("formatPeriodFromFreq", formatPeriodFromFreq(call.x, call.freq))
  /\ pc' = "done"
  /\ UNCHANGED <<call, prior, zone, hookVars>>

ConvertTimestampToSeconds ==
  /\ pc = "call"
  /\ call.fn = "convertTimestampToSeconds"
  /\ ret' = Called("convertTimestampToSeconds",
                   Returned(convertTimestampToSeconds(call.x, call.unit[1])))
  /\ pc' = "done"
  /\ UNCHANGED <<call, prior, zone, hookVars>>

Next == Format \/ FormatPeriodFromFreq \/ ConvertTimestampToSeconds

Spec == Init /\ [][Next]_vars

\* The cells of the calls that come between two calls of format with the
\* same arguments
Intervening ==
  {MkCall("format", BigInt(5), T_Period, Undefined, Undefined),
   MkCall("format", Num(150), Undefined, Undefined, Undefined)}

\* After a call of format: the page formats another cell, the environment
\* may set another zone, and the first call is about to be made again
Intervene ==
  /\ pc = "done"
  /\ call.fn = "format"
  /\ prior = Undefined
  /\ prior' = Some(ret)
  /\ \E o \in Intervening : ret' = format(o.x, o.type, o.field)
  /\ zone' \in LocalZones
  /\ pc' = "call"
  /\ UNCHANGED <<call, hookVars>>

InitRepeat ==
  /\ pc = "call"
  /\ ret = NoRet
  /\ prior = Undefined
  /\ zone \in LocalZones
  /\ HooksIdle
  /\ \/ InitPeriod
     \/ InitInterval
     \/ InitDecimal
     \/ InitNoField

NextRepeat == Format \/ Intervene

\* format called twice with the same arguments
SpecRepeat == InitRepeat /\ [][NextRepeat]_vars

\* --------------------------------------------- the type utilities as entries
\* getTypeName(type), isIntegerType(type) and getTimezone(type) called on the
\* columns a table can carry.

LogicalNames ==
  {T_float64, T_int64, T_object, T_range, <<"u", "i", "n", "t", "6", "4">>, T_unicode, <<"b", "o", "o", "l">>,
   T_categorical, T_datetime, <<"m", "i", "x", "e", "d">>}

StorageNames ==
  {T_float64, T_int64, <<"i", "n", "t", "1", "6">>, T_int8, T_range, <<"u", "i", "n", "t", "6", "4">>, <<"u", "i", "n", "t", "1", "6">>, <<"u", "i", "n", "t", "8">>,
   T_object, <<"b", "o", "o", "l">>, T_interval, <<"i", "n", "t", "e", "r", "v", "a", "l", "[", "d", "a", "t", "e", "t", "i", "m", "e", "6", "4", "[", "n", "s", "]", ",", " ", "r", "i", "g", "h", "t", "]">>, T_period,
   T_decimal, T_timedelta, T_datetime64, <<"b", "y", "t", "e", "s">>}

TypePairs == {MkType(Some(p), Some(n)) : p \in LogicalNames, n \in StorageNames}

\* Datetime columns: without metadata, with empty metadata, and with a
\* timezone that names a zone, an offset, or nothing that exists
Metas ==
  {Undefined, Some(MkMeta(Undefined))}
  \cup {Some(MkMeta(Some(tz))) :
          tz \in {<<"U", "T", "C">>, <<"A", "m", "e", "r", "i", "c", "a", "/", "N", "e", "w", "_", "Y", "o", "r", "k">>, <<"+", "0", "5", ":", "3", "0">>, <<"M", "a", "r", "s", "/", "O", "l", "y", "m", "p", "u", "s">>, << >>}}

DatetimeTypes ==
  {MkTypeMeta(Some(p), Some(T_datetime64), m) : p \in {T_datetime, T_datetimetz}, m \in Metas}

\* A string or undefined, as a function returns it
ReturnedName(name) == Returned(IF name = Undefined THEN Undef ELSE StrVal(name[1]))

InitTypes ==
  /\ pc = "call"
  /\ ret = NoRet
  /\ prior = Undefined
  /\ zone = "UTC"
  /\ HooksIdle
  /\ \/ \E t \in TypePairs, fn \in {"getTypeName", "isIntegerType"} :
          call = MkCall(fn, Undef, Some(t), Undefined, Undefined)
     \/ \E t \in DatetimeTypes :
          call = MkCall("getTimezone", Undef, Some(t), Undefined, Undefined)

GetTypeName ==
  /\ pc = "call"
  /\ call.fn = "getTypeName"
  /\ ret' = Called("getTypeName", ReturnedName(getTypeName(call.type[1])))
  /\ pc' = "done"
  /\ UNCHANGED <<call, prior, zone, hookVars>>

IsIntegerType ==
  /\ pc = "call"
  /\ call.fn = "isIntegerType"
  /\ ret' = Called("isIntegerType", Returned(Bool(isIntegerType(call.type[1]))))
  /\ pc' = "done"
  /\ UNCHANGED <<call, prior, zone, hookVars>>

GetTimezone ==
  /\ pc = "call"
  /\ call.fn = "getTimezone"
  /\ ret' = Called("getTimezone", ReturnedName(getTimezone(call.type[1])))
  /\ pc' = "done"
  /\ UNCHANGED <<call, prior, zone, hookVars>>

NextTypes == GetTypeName \/ IsIntegerType \/ GetTimezone

SpecTypes == InitTypes /\ [][NextTypes]_vars
\* ------------------------------------------------------------- useVegaEmbed
\* A Quiver is read for its row and column counts; null is Undefined.
Quiver(numRows, numCols) == [numRows |-> numRows, numCols |-> numCols]

\* A WrappedNamedDataset
NamedDataset(name, data) == [name |-> name, data |-> data]

\* getDataSets(datasets)[name]: the dataset of that name, the last one if
\* several carry it, or undefined
datasetOf(datasets, name) ==
  IF \E i \in 1..Len(datasets) : datasets[i].name = name
  THEN LET last == CHOOSE i \in 1..Len(datasets) :
                     /\ datasets[i].name = name
                     /\ \A j \in (i + 1)..Len(datasets) : datasets[j].name # name
       IN Some(datasets[last].data)
  ELSE Undefined

\* Object.keys(getDataSets(datasets) ?? {})
datasetNames(datasets) == {datasets[i].name : i \in 1..Len(datasets)}

\* What updateData does to the view: view.remove(name, truthy),
\* view.insert(name, getDataArray(data, from)) or view.data(name, ...)
ViewOp(op, name, from) == [op |-> op, name |-> name, from |-> from]

\* updateData replacing the dataset whatever came before
updateData_AlwaysReplaces(name, prevData, data, isAppend) ==
  <<ViewOp("data", name, 0)>>

\* updateData(view, name, prevData, data): the operations on the view, given
\* the answer isAppend of dataIsAnAppendOfPrev
updateData(name, prevData, data, isAppend) ==
  IF data = Undefined \/ data[1].numRows = 0
  THEN <<ViewOp("remove", name, 0)>>
  ELSE IF prevData = Undefined \/ prevData[1].numRows = 0
  THEN <<ViewOp("insert", name, 0)>>
  ELSE IF isAppend
  THEN IF prevData[1].numRows < data[1].numRows
       THEN <<ViewOp("insert", name, prevData[1].numRows)>>
       ELSE << >>
  ELSE <<ViewOp("data", name, 0)>>

\* One call of updateData, as updateView made it
UpdateCall(name, prevData, data, isAppend) ==
  [name |-> name, prevData |-> prevData, data |-> data, isAppend |-> isAppend,
   ops |-> updateData(name, prevData, data, isAppend)]

\* A view embed created, and whether its finalizer was called
EmbeddedView == [finalized |-> FALSE]

\* A call suspended at an await: createView waiting for embed or for the view
\* to run, updateView waiting for the view to resize, with the data and
\* datasets it was given and the calls of updateData it made
Suspended(fn, at, data, datasets, updates) ==
  [fn |-> fn, at |-> at, data |-> data, datasets |-> datasets, updates |-> updates]

MaxViews == 2
MaxPending == 2

\* The data and datasets of the element, as one render after another hands
\* them to the hook: no data, an empty table, tables that grow, and a named
\* dataset that comes and goes
Elements ==
  {Loaded(Undefined, << >>),
   Loaded(Some(Quiver(0, 1)), << >>),
   Loaded(Some(Quiver(1, 1)), << >>),
   Loaded(Some(Quiver(2, 1)), <<NamedDataset("a", Quiver(1, 1))>>),
   Loaded(Undefined, <<NamedDataset("a", Quiver(2, 1))>>)}

Without1(s, i) == SubSeq(s, 1, i - 1) \o SubSeq(s, i + 1, Len(s))

\* finalizeView's effect on the views: the finalizer held, if any, is called
finalized(vs) ==
  IF vegaFinalizer = 0 THEN vs ELSE [vs EXCEPT ![vegaFinalizer].finalized = TRUE]

\* finalizeView()
FinalizeView ==
  /\ views # << >>
  /\ views' = finalized(views)
  /\ vegaFinalizer' = 0
  /\ vegaView' = 0
  /\ loaded' = NothingLoaded
  /\ UNCHANGED <<defaultDataName, dataRef, datasetsRef, error, pending>>
  /\ UNCHANGED <<updateCall, formatVars, sizerVars, keyVars, inputVars>>

\* createView(containerRef, spec) up to its first await: without a container
\* element it sets the error; with one it finalizes the previous view and
\* waits for embed
CreateView ==
  /\ Len(pending) < MaxPending
  /\ Len(views) + Len(SelectSeq(pending, LAMBDA t : t.at = "embed")) < MaxViews
  /\ \E hasContainer \in BOOLEAN :
       IF ~hasContainer
       THEN /\ error' = TRUE
            /\ UNCHANGED <<vegaView, vegaFinalizer, views, loaded, pending>>
       ELSE /\ views' = finalized(views)
            /\ vegaFinalizer' = 0
            /\ vegaView' = 0
            /\ loaded' = NothingLoaded
            /\ pending' = Append(pending, Suspended("createView", "embed", Undefined, << >>, << >>))
            /\ UNCHANGED error
  /\ UNCHANGED <<defaultDataName, dataRef, datasetsRef>>
  /\ UNCHANGED <<updateCall, formatVars, sizerVars, keyVars, inputVars>>

\* embed resolves with a new view: createView installs it and its finalizer,
\* settles the default dataset name, loads the data and datasets of the refs
\* into it and waits for the view to run
EmbedResolved ==
  \E i \in 1..Len(pending), specHasData \in BOOLEAN :
    /\ pending[i].fn = "createView"
    /\ pending[i].at = "embed"
    /\ views' = Append(views, EmbeddedView)
    /\ vegaView' = Len(views) + 1
    /\ vegaFinalizer' = Len(views) + 1
    /\ defaultDataName' =
         IF Cardinality(datasetNames(datasetsRef)) = 1
         THEN CHOOSE n \in datasetNames(datasetsRef) : TRUE
         ELSE IF datasetsRef = << >> /\ specHasData THEN DEFAULT_DATA_NAME
         ELSE defaultDataName
    /\ loaded' = Loaded(dataRef, datasetsRef)
    /\ pending' = [pending EXCEPT ![i].at = "runAsync"]
    /\ UNCHANGED <<dataRef, datasetsRef, error>>
    /\ UNCHANGED <<updateCall, formatVars, sizerVars, keyVars, inputVars>>

\* embed rejects: createView sets the error and returns null
EmbedRejected ==
  \E i \in 1..Len(pending) :
    /\ pending[i].fn = "createView"
    /\ pending[i].at = "embed"
    /\ error' = TRUE
    /\ pending' = Without1(pending, i)
    /\ UNCHANGED <<vegaView, vegaFinalizer, defaultDataName, dataRef, datasetsRef, views, loaded>>
    /\ UNCHANGED <<updateCall, formatVars, sizerVars, keyVars, inputVars>>

\* The view has run: createView reads vegaView.current again to resize it,
\* which throws when the view was finalized meanwhile, and returns
CreateViewResumed ==
  \E i \in 1..Len(pending) :
    /\ pending[i].fn = "createView"
    /\ pending[i].at = "runAsync"
    /\ error' = (error \/ vegaView = 0)
    /\ pending' = Without1(pending, i)
    /\ UNCHANGED <<vegaView, vegaFinalizer, defaultDataName, dataRef, datasetsRef, views, loaded>>
    /\ UNCHANGED <<updateCall, formatVars, sizerVars, keyVars, inputVars>>

\* The calls of updateData updateView makes on a live view: the default
\* dataset, every named dataset, and the removal of those no longer there.
\* dataIsAnAppendOfPrev is asked only for two datasets that both have rows
updateCalls(inputData, inputDatasets, appends) ==
  LET prevData == dataRef
      prevDatasets == datasetsRef
      asked(prev, data, answer) ==
        /\ data # Undefined /\ data[1].numRows # 0
        /\ prev # Undefined /\ prev[1].numRows # 0
        /\ answer
      default ==
        IF dataRef # Undefined \/ inputData # Undefined
        THEN <<UpdateCall(defaultDataName, prevData, inputData,
                          asked(prevData, inputData, appends[1]))>>
        ELSE << >>
      named ==
        [i \in 1..Len(inputDatasets) |->
           LET datasetName ==
                 IF inputDatasets[i].name = "" THEN defaultDataName
                 ELSE inputDatasets[i].name
           IN UpdateCall(datasetName, datasetOf(prevDatasets, datasetName),
                         Some(inputDatasets[i].data),
                         asked(datasetOf(prevDatasets, datasetName),
                               Some(inputDatasets[i].data), appends[2]))]
      removed ==
        SelectSeq([i \in 1..Len(prevDatasets) |->
                     UpdateCall(prevDatasets[i].name, Undefined, Undefined, FALSE)],
                  LAMBDA c : /\ c.name \notin datasetNames(inputDatasets)
                             /\ c.name # defaultDataName)
  IN default \o named \o removed

\* The effect on [data, datasets] of the hook and then the chart's: while no
\* view exists the refs take the element's data and datasets and updateView
\* returns null; on a live view updateView hands the refs and the new data to
\* updateData, dataset by dataset, and waits for the view to resize
UpdateView ==
  \E element \in Elements :
    LET inputData == element.data
        inputDatasets == element.datasets
    IN
    IF vegaView = 0
    THEN /\ dataRef' = inputData
         /\ datasetsRef' = inputDatasets
         /\ UNCHANGED <<vegaView, vegaFinalizer, defaultDataName, error, views, loaded, pending>>
         /\ UNCHANGED <<updateCall, formatVars, sizerVars, keyVars, inputVars>>
    ELSE /\ Len(pending) < MaxPending
         /\ loaded' = Loaded(inputData, inputDatasets)
         /\ \E appends \in [1..2 -> BOOLEAN] :
              pending' = Append(pending,
                                Suspended("updateView", "resize", inputData, inputDatasets,
                                          updateCalls(inputData, inputDatasets, appends)))
         /\ UNCHANGED <<vegaView, vegaFinalizer, defaultDataName, dataRef, datasetsRef, error, views>>
         /\ UNCHANGED <<updateCall, formatVars, sizerVars, keyVars, inputVars>>

\* The view has resized: updateView stores the data and datasets it was
\* given in the refs and returns
UpdateViewResumed ==
  \E i \in 1..Len(pending) :
    /\ pending[i].fn = "updateView"
    /\ dataRef' = pending[i].data
    /\ datasetsRef' = pending[i].datasets
    /\ pending' = Without1(pending, i)
    /\ UNCHANGED <<vegaView, vegaFinalizer, defaultDataName, error, views, loaded>>
    /\ UNCHANGED <<updateCall, formatVars, sizerVars, keyVars, inputVars>>

InitEmbed == EmbedIdle /\ FormatIdle /\ SizerIdle /\ KeyIdle /\ InputIdle

NextEmbed ==
  \/ FinalizeView
  \/ CreateView
  \/ EmbedResolved
  \/ EmbedRejected
  \/ CreateViewResumed
  \/ UpdateView
  \/ UpdateViewResumed

SpecEmbed == InitEmbed /\ [][NextEmbed]_vars

\* ---------------------------------------------------- updateData by itself
\* updateData(view, name, prevData, data) on tables of every size up to
\* MaxRows rows, the previous one and the new one, under both answers of
\* dataIsAnAppendOfPrev.
MaxRows == 2

Quivers == {Undefined} \cup {Some(Quiver(r, c)) : r \in 0..MaxRows, c \in 1..2}

PendingCall(name, prevData, data, isAppend) ==
  [name |-> name, prevData |-> prevData, data |-> data, isAppend |-> isAppend,
   ops |-> Undefined]

InitUpdateData ==
  /\ vegaView = 0 /\ vegaFinalizer = 0 /\ defaultDataName = DEFAULT_DATA_NAME
  /\ dataRef = Undefined /\ datasetsRef = << >> /\ error = FALSE
  /\ views = << >> /\ loaded = NothingLoaded /\ pending = << >>
  /\ \E name \in {DEFAULT_DATA_NAME, "a"}, prevData \in Quivers, data \in Quivers,
        isAppend \in BOOLEAN :
       updateCall = Some(PendingCall(name, prevData, data, isAppend))
  /\ FormatIdle /\ SizerIdle /\ KeyIdle /\ InputIdle

UpdateData ==
  /\ updateCall # Undefined
  /\ updateCall[1].ops = Undefined
  /\ updateCall' =
       Some(UpdateCall(updateCall[1].name, updateCall[1].prevData, updateCall[1].data,
                       updateCall[1].isAppend))
  /\ UNCHANGED <<vegaView, vegaFinalizer, defaultDataName, dataRef, datasetsRef, error,
                 views, loaded, pending>>
  /\ UNCHANGED <<formatVars, sizerVars, keyVars, inputVars>>

NextUpdateData == UpdateData

SpecUpdateData == InitUpdateData /\ [][NextUpdateData]_vars
\* ------------------------------------------------------------ useTableSizer
Max(a, b) == IF a >= b THEN a ELSE b
Min(a, b) == IF a <= b THEN a ELSE b

\* A width of the resizable container: a number of pixels, or "100%"
Px(n) == [percent |-> FALSE, px |-> n]
FullWidth == [percent |-> TRUE, px |-> 100]
\* initialWidth || "100%"
orFullWidth(initialWidth) ==
  IF initialWidth = Undefined \/ initialWidth = Some(0) THEN FullWidth ELSE Px(initialWidth[1])

ResizableSize(width, height) == [width |-> width, height |-> height]

\* The arguments of the hook: element (height, width, useContainerWidth,
\* editingMode), gridTheme, numRows, usesGroupRow, containerWidth,
\* containerHeight and isFullScreen
minHeight(p) ==
  p.gridTheme.defaultHeaderHeight + p.gridTheme.defaultRowHeight
    + 2 * p.gridTheme.tableBorderWidth

\* maxHeight as first computed, from the number of rows
rowsHeight(p) ==
  Max((p.numRows + (IF p.dynamic THEN 1 ELSE 0)) * p.gridTheme.defaultRowHeight
        + (IF p.usesGroupRow THEN 2 ELSE 1) * p.gridTheme.defaultHeaderHeight
        + 2 * p.gridTheme.tableBorderWidth,
      minHeight(p))

\* maxHeight after the element's height was taken in
elementMaxHeight(p) ==
  IF p.height # 0 THEN Max(p.height, rowsHeight(p)) ELSE rowsHeight(p)

\* initialHeight after the element's height was taken in
elementInitialHeight(p) ==
  IF p.height # 0 THEN Max(p.height, minHeight(p))
  ELSE Min(rowsHeight(p), p.gridTheme.defaultTableHeight)

\* A hook that lets the container's height bound the initial height only
maxHeight_Unbounded(p) == elementMaxHeight(p)

hasContainerHeight(p) == p.containerHeight # Undefined /\ p.containerHeight # Some(0)

maxHeight(p) ==
  IF hasContainerHeight(p)
  THEN Min(elementMaxHeight(p), p.containerHeight[1])
  ELSE elementMaxHeight(p)

initialHeight(p) ==
  IF hasContainerHeight(p)
  THEN IF p.height = 0 THEN maxHeight(p)
       ELSE Min(elementInitialHeight(p), p.containerHeight[1])
  ELSE elementInitialHeight(p)

minWidth(p) == p.gridTheme.minColumnWidth + 2 * p.gridTheme.tableBorderWidth

availableWidth(p) == Max(p.containerWidth, minWidth(p))

\* A hook that takes the configured width as it stands
initialWidth_Unclamped(p) ==
  IF p.useContainerWidth THEN Some(availableWidth(p))
  ELSE IF p.width # 0 THEN Some(p.width)
  ELSE Undefined

initialWidth(p) ==
  IF p.useContainerWidth THEN Some(availableWidth(p))
  ELSE IF p.width # 0
  THEN Some(Min(Max(p.width, minWidth(p)), availableWidth(p)))
  ELSE Undefined

maxWidth(p) ==
  IF ~p.useContainerWidth /\ p.width # 0
  THEN Min(Max(p.width, availableWidth(p)), availableWidth(p))
  ELSE availableWidth(p)

\* useState's initial value
initialSize(p) == ResizableSize(orFullWidth(initialWidth(p)), initialHeight(p))

\* The layout effects of one commit, in order, each run when one of its
\* dependencies differs from the previous render's (all of them on mount):
\* rendered is the state the render saw, size the state being updated
widthEffect(changed, p, rendered, size) ==
  IF changed /\ p.useContainerWidth /\ rendered.width = FullWidth
  THEN [size EXCEPT !.width = Px(availableWidth(p))]
  ELSE size

resetWidthEffect(changed, p, size) ==
  IF changed THEN [size EXCEPT !.width = orFullWidth(initialWidth(p))] ELSE size

resetHeightEffect(changed, p, size) ==
  IF changed THEN [size EXCEPT !.height = initialHeight(p)] ELSE size

fullScreenEffect(changed, p, size) ==
  IF ~changed THEN size
  ELSE IF p.isFullScreen
  THEN ResizableSize(IF p.useContainerWidth \/ p.width > 0 THEN Px(maxWidth(p)) ELSE FullWidth,
                     maxHeight(p))
  ELSE initialSize(p)

layoutEffects(mount, old, p, rendered) ==
  fullScreenEffect(mount \/ old.isFullScreen # p.isFullScreen, p,
    resetHeightEffect(mount \/ initialHeight(old) # initialHeight(p) \/ old.numRows # p.numRows, p,
      resetWidthEffect(mount \/ initialWidth(old) # initialWidth(p), p,
        widthEffect(mount \/ availableWidth(old) # availableWidth(p), p, rendered, rendered))))

GridThemes ==
  {[defaultRowHeight |-> 35, defaultHeaderHeight |-> 35, tableBorderWidth |-> 1,
    minColumnWidth |-> 50, defaultTableHeight |-> 400]}

TableProps(gridTheme, height, width, useContainerWidth, dynamic, numRows, usesGroupRow, containerWidth, containerHeight, isFullScreen) ==
  [gridTheme |-> gridTheme, height |-> height, width |-> width,
   useContainerWidth |-> useContainerWidth, dynamic |-> dynamic, numRows |-> numRows,
   usesGroupRow |-> usesGroupRow, containerWidth |-> containerWidth,
   containerHeight |-> containerHeight, isFullScreen |-> isFullScreen]

ElementHeights == {0, 10, 300, 5000}
ElementWidths == {0, 20, 300, 2000}
RowCounts == {0, 100}
ContainerWidths == {-1, 30, 700}
ContainerHeights == {Undefined, Some(0), Some(50), Some(600)}

\* The first render calls the hook; nothing is committed yet
InitSizer ==
  /\ \E t \in GridThemes, h \in ElementHeights, w \in ElementWidths,
        ucw \in BOOLEAN, dyn \in BOOLEAN, n \in RowCounts, g \in BOOLEAN,
        cw \in ContainerWidths, ch \in ContainerHeights, fs \in BOOLEAN :
       sizerProps = Some(TableProps(t, h, w, ucw, dyn, n, g, cw, ch, fs))
  /\ resizableSize = Undefined
  /\ FormatIdle /\ EmbedIdle /\ KeyIdle /\ InputIdle

\* The first commit: useState takes its initial value and every layout
\* effect runs
Mount ==
  /\ resizableSize = Undefined
  /\ resizableSize' =
       Some(layoutEffects(TRUE, sizerProps[1], sizerProps[1], initialSize(sizerProps[1])))
  /\ UNCHANGED sizerProps
  /\ UNCHANGED <<formatVars, embedVars, keyVars, inputVars>>

\* A later render of the same element in another container, with another
\* number of rows or in or out of full screen: the layout effects whose
\* dependencies changed run
Rerender ==
  /\ resizableSize # Undefined
  /\ \E n \in RowCounts, cw \in ContainerWidths, ch \in ContainerHeights, fs \in BOOLEAN :
       LET next(old, p) ==
             /\ sizerProps' = Some(p)
             /\ resizableSize' = Some(layoutEffects(FALSE, old, p, resizableSize[1]))
       IN next(sizerProps[1],
               [sizerProps[1] EXCEPT !.numRows = n, !.containerWidth = cw,
                                     !.containerHeight = ch, !.isFullScreen = fs])
  /\ UNCHANGED <<formatVars, embedVars, keyVars, inputVars>>

\* The user drags the table to another size: setResizableSize
Resize ==
  /\ resizableSize # Undefined
  /\ \E w \in {minWidth(sizerProps[1]), maxWidth(sizerProps[1])},
        h \in {minHeight(sizerProps[1]), maxHeight(sizerProps[1])} :
       resizableSize' = Some(ResizableSize(Px(w), h))
  /\ UNCHANGED sizerProps
  /\ UNCHANGED <<formatVars, embedVars, keyVars, inputVars>>

NextSizer == Mount \/ Rerender \/ Resize

SpecSizer == InitSizer /\ [][NextSizer]_vars
\* ------------------------------------------------- useSubmitFormViaEnterKey
\* The keyboard event, with the hook's arguments requireCommandKey and
\* callCommitWidgetValue and the answer of widgetMgr.allowFormEnterToSubmit
KeyEvent(key, keyCode, nativeEvent, metaKey, ctrlKey, preventDefault, requireCommandKey, callCommitWidgetValue, allowFormEnterToSubmit) ==
  [key |-> key, keyCode |-> keyCode, nativeEvent |-> nativeEvent, metaKey |-> metaKey,
   ctrlKey |-> ctrlKey, preventDefault |-> preventDefault,
   requireCommandKey |-> requireCommandKey,
   callCommitWidgetValue |-> callCommitWidgetValue,
   allowFormEnterToSubmit |-> allowFormEnterToSubmit]

\* A test that looks at the key alone
isEnterKeyPressed_KeyOnly(event) == event.key = "Enter"

isEnterKeyPressed(event) ==
  /\ (event.key = "Enter" \/ event.keyCode = 13 \/ event.keyCode = 10)
  /\ ~(event.nativeEvent # Undefined /\ event.nativeEvent[1].isComposing = TRUE)

\* A handler that submits the form before it commits the value
onKeyDown_SubmitsFirst(e) ==
  <<"console.log">>
  \o (IF ~isEnterKeyPressed(e) \/ ~(IF e.requireCommandKey THEN e.metaKey \/ e.ctrlKey ELSE TRUE)
      THEN << >>
      ELSE (IF e.preventDefault THEN <<"preventDefault">> ELSE << >>)
           \o (IF e.allowFormEnterToSubmit THEN <<"submitForm">> ELSE << >>)
           \o (IF e.callCommitWidgetValue THEN <<"commitWidgetValue">> ELSE << >>))

\* The memoized callback: the calls it makes, in order
onKeyDown(e) ==
  LET isCommandKeyPressed == IF e.requireCommandKey THEN e.metaKey \/ e.ctrlKey ELSE TRUE
  IN <<"console.log">>
     \o (IF ~isEnterKeyPressed(e) \/ ~isCommandKeyPressed
         THEN << >>
         ELSE (IF e.preventDefault THEN <<"preventDefault">> ELSE << >>)
              \o (IF e.callCommitWidgetValue THEN <<"commitWidgetValue">> ELSE << >>)
              \o (IF e.allowFormEnterToSubmit THEN <<"submitForm">> ELSE << >>))

NativeEvents == {Undefined, Some([isComposing |-> TRUE]), Some([isComposing |-> FALSE])}

InitKey ==
  /\ \E key \in {"Enter", "a"}, keyCode \in {13, 10, 65}, nativeEvent \in NativeEvents,
        metaKey \in BOOLEAN, ctrlKey \in BOOLEAN, preventDefault \in BOOLEAN,
        requireCommandKey \in BOOLEAN, callCommitWidgetValue \in BOOLEAN,
        allowFormEnterToSubmit \in BOOLEAN :
       keyEvent = Some(KeyEvent(key, keyCode, nativeEvent, metaKey, ctrlKey, preventDefault,
                                requireCommandKey, callCommitWidgetValue,
                                allowFormEnterToSubmit))
  /\ keyCalls = << >>
  /\ FormatIdle /\ EmbedIdle /\ SizerIdle /\ InputIdle

\* The handler runs on the event
OnKeyDown ==
  /\ keyEvent # Undefined
  /\ keyCalls = << >>
  /\ keyCalls' = onKeyDown(keyEvent[1])
  /\ UNCHANGED keyEvent
  /\ UNCHANGED <<formatVars, embedVars, sizerVars, inputVars>>

NextKey == OnKeyDown

SpecKey == InitKey /\ [][NextKey]_vars
\* ---------------------------------------------------------- useOnInputChange
\* The change event: e.target.value, with the hook's argument maxChars, the
\* answer of isInForm({ formId }), and, once the handler has run, the calls
\* it made, in order
ChangeEvent(value, maxChars, inForm) ==
  [value |-> value, maxChars |-> maxChars, inForm |-> inForm, calls |-> Undefined]

\* A call of setDirty(flag), setUiValue(value) or
\* setValueWithSource({ value, fromUi: flag })
SetterCall(fn, value, flag) == [fn |-> fn, value |-> value, flag |-> flag]

\* A handler that takes a value of any length
onInputChange_IgnoresMaxChars(e) ==
  <<SetterCall("setDirty", << >>, TRUE), SetterCall("setUiValue", e.value, FALSE)>>
  \o (IF e.inForm THEN <<SetterCall("setValueWithSource", e.value, TRUE)>> ELSE << >>)

\* The memoized callback: the setters it calls, in order
onInputChange(e) ==
  IF e.maxChars # 0 /\ Len(e.value) > e.maxChars THEN << >>
  ELSE <<SetterCall("setDirty", << >>, TRUE), SetterCall("setUiValue", e.value, FALSE)>>
       \o (IF e.inForm THEN <<SetterCall("setValueWithSource", e.value, TRUE)>> ELSE << >>)

\* The state a setter leaves: the argument of its last call, or the state
\* as it was
lastCall(calls, fn) ==
  LET at == {i \in 1..Len(calls) : calls[i].fn = fn}
  IN IF at = {} THEN Undefined
     ELSE Some(calls[CHOOSE i \in at : \A j \in at : j <= i])

ValueWithSource(value, fromUi) == [value |-> value, fromUi |-> fromUi]

InputValues == {<< >>, <<"a">>, <<"a", "b", "c">>, <<"a", "b", "c", "d">>}

InitInput ==
  /\ \E value \in InputValues, maxChars \in {0, 1, 3}, inForm \in BOOLEAN :
       changeEvent = Some(ChangeEvent(value, maxChars, inForm))
  /\ dirty \in BOOLEAN
  /\ uiValue \in {<< >>, <<"a">>}
  /\ valueWithSource \in {Undefined, Some(ValueWithSource(<<"a">>, FALSE))}
  /\ FormatIdle /\ EmbedIdle /\ SizerIdle /\ KeyIdle

\* The handler runs on the event
OnInputChange ==
  /\ changeEvent # Undefined
  /\ changeEvent[1].calls = Undefined
  /\ LET apply(calls) ==
           /\ changeEvent' = Some([changeEvent[1] EXCEPT !.calls = Some(calls)])
           /\ dirty' = IF lastCall(calls, "setDirty") = Undefined THEN dirty
                       ELSE lastCall(calls, "setDirty")[1].flag
           /\ uiValue' = IF lastCall(calls, "setUiValue") = Undefined THEN uiValue
                         ELSE lastCall(calls, "setUiValue")[1].value
           /\ valueWithSource' =
                IF lastCall(calls, "setValueWithSource") = Undefined THEN valueWithSource
                ELSE Some(ValueWithSource(lastCall(calls, "setValueWithSource")[1].value,
                                          lastCall(calls, "setValueWithSource")[1].flag))
     IN apply(onInputChange(changeEvent[1]))
  /\ UNCHANGED <<formatVars, embedVars, sizerVars, keyVars>>

NextInput == OnInputChange

SpecInput == InitInput /\ [][NextInput]_vars

\* ------------------------------------------------------------------- claims

Done == pc = "done"
IsFormat == call.fn = "format"
\* The logical type name format computes for the call
TypeName == IF call.type = Undefined THEN Undefined ELSE getTypeName(call.type[1])
\* The branch format took: the first formatter entered
Branch == ret.calls[1]
DateLike == call.x.k = "Date" \/ call.x.k = "number"

\* The period aliases of pandas the source names (supported or not)
PandasAliases ==
  {<<"A">>, <<"Y">>, <<"Q">>, <<"M">>, <<"W">>, <<"D">>, <<"H">>, <<"h">>, <<"T">>, <<"m", "i", "n">>,
   <<"S">>, <<"s">>, <<"L">>, <<"m", "s">>, <<"N">>, <<"U">>, <<"u", "s">>, <<"B">>}

\* A frequency code <alias>[-<param>]; the weekly alias carries a weekday
WellFormedFreq(f) ==
  LET parts == SplitAll(f, "-") IN
  /\ parts[1] \in PandasAliases
  /\ Len(parts) <= 2
  /\ parts[1] = <<"W">> =>
       Len(parts) = 2 /\ \E i \in 1..Len(WEEKDAY_SHORT) : WEEKDAY_SHORT[i] = parts[2]

\* Extension entries that conform to the documented schemas: a name comes
\* with metadata that is JSON; period metadata has a frequency code, interval
\* metadata a subtype and one of the four closed values
WellFormedField(f) ==
  \/ f = Undefined
  \/ /\ (f[1].extName = Undefined) <=> (f[1].extMeta = Undefined)
     /\ f[1].extMeta # Undefined => f[1].extMeta[1].json
     /\ f[1].extName = Some("pandas.period") =>
          /\ f[1].extMeta[1].freq # Undefined
          /\ WellFormedFreq(f[1].extMeta[1].freq[1])
     /\ f[1].extName = Some("pandas.interval") =>
          /\ f[1].extMeta[1].subtype # Undefined
          /\ f[1].extMeta[1].closed \in
               {Some("left"), Some("right"), Some("both"), Some("neither")}

\* The cell of an interval column is a row (or null)
WellFormedValue ==
  (typeStartsWith(TypeName, <<"i", "n", "t", "e", "r", "v", "a", "l">>) /\ fieldExtName(call.field) = Some("pandas.interval"))
    => call.x.k \in {"StructRow", "null", "undefined"}

WellFormed == IsFormat /\ WellFormedField(call.field) /\ WellFormedValue

\* C1: on every well-formed input (a value of its type's domain, null
\* included, with extension entries that conform to the schemas) format
\* returns a string and does not throw.
C1_WellFormedNeverThrows == (Done /\ WellFormed) => ~ret.thrown

C1_Witness ==
  /\ Done /\ WellFormed /\ ~ret.thrown
  /\ Branch = "formatPeriod"
  /\ \E i \in 1..Len(ret.calls) : ret.calls[i] = "formatWeeks"

\* The call went down the period path
PeriodPath == (IsFormat /\ Branch = "formatPeriod") \/ call.fn = "formatPeriodFromFreq"

\* The frequency the period path works with, when there is one
CallFreq ==
  IF call.fn = "formatPeriodFromFreq" THEN call.freq
  ELSE IF call.field = Undefined \/ call.field[1].extMeta = Undefined THEN Undefined
  ELSE call.field[1].extMeta[1].freq

SupportedAliases ==
  {<<"A">>, <<"Y">>, <<"Q">>, <<"M">>, <<"W">>, <<"D">>, <<"H">>, <<"h">>, <<"T">>, <<"m", "i", "n">>,
   <<"S">>, <<"s">>, <<"L">>, <<"m", "s">>}

\* The metadata does not parse, has no freq, or the frequency is not one a
\* formatter can serve
UnusableFrequency ==
  \/ /\ IsFormat
     /\ call.field # Undefined
     /\ call.field[1].extMeta # Undefined
     /\ ~call.field[1].extMeta[1].json
  \/ CallFreq = Undefined
  \/ LET parts == SplitAll(CallFreq[1], "-") IN
     \/ parts[1] \notin SupportedAliases
     \/ /\ parts[1] = <<"W">>
        /\ (Len(parts) < 2 \/ \A i \in 1..Len(WEEKDAY_SHORT) : WEEKDAY_SHORT[i] # parts[2])

\* C2: the period path never throws, whatever the extension metadata text
\* and the frequency code are, and returns the raw stringified duration
\* whenever the metadata or the frequency is unusable.
C2_PeriodNeverThrows ==
  (Done /\ PeriodPath)
    => (~ret.thrown /\ (UnusableFrequency => ret.str = String(call.x)))

\* C3: an interval-typed value whose field names the interval extension but
\* has absent or unparsable extension metadata is rendered as String(value).
C3_IntervalBadMetadataFallsBack ==
  (/\ Done /\ IsFormat /\ Branch = "formatInterval"
   /\ fieldExtName(call.field) = Some("pandas.interval")
   /\ (call.field[1].extMeta = Undefined \/ ~call.field[1].extMeta[1].json))
    => (~ret.thrown /\ ret.str = String(call.x))

\* N / 10^s written out: the sign, the whole part, and the s fraction digits
\* with trailing zeros trimmed
DecimalExpansion(n, s) ==
  LET frac == trimEnd(DigitsStr(BigLowDigits(n.mag, s)), "0") IN
  (IF n.neg /\ ~AllZero(n.mag) THEN <<"-">> ELSE << >>)
    \o DigitsStr(BigShiftRight(n.mag, s))
    \o (IF frac = << >> THEN << >> ELSE <<".">> \o frac)

CallScale == IF fieldScale(call.field) = Undefined THEN 0 ELSE fieldScale(call.field)[1]

\* C4: formatDecimal returns exactly the decimal expansion of N / 10^s, for
\* every unscaled integer N of either sign and every scale s >= 0.
C4_DecimalIsExactExpansion ==
  (Done /\ IsFormat /\ Branch = "formatDecimal")
    => (~ret.thrown /\ ret.str = DecimalExpansion(call.x.n, CallScale))

\* C5: a null or undefined value is rendered as "<NA>" for every type and
\* every field, before any other rule, with no specialized formatter entered.
C5_NullIsNA ==
  (Done /\ IsFormat /\ isNullish(call.x))
    => (~ret.thrown /\ ret.str = <<"<", "N", "A", ">">> /\ ret.calls = <<"NA">> /\ ret.warns = 0)

C5_Witness ==
  /\ Done /\ IsFormat /\ call.x.k = "null"
  /\ TypeName = Some(T_period)
  /\ fieldExtName(call.field) = Some("pandas.period")
  /\ call.field[1].extMeta = Some(BadJson)
  /\ ret.str = <<"<", "N", "A", ">">>

\* The dispatch rules of format, in their order
Rules ==
  <<isNullish(call.x),
    DateLike /\ typeIs(TypeName, <<"d", "a", "t", "e">>),
    call.x.k = "bigint" /\ typeIs(TypeName, <<"t", "i", "m", "e">>),
    DateLike /\ (typeStartsWith(TypeName, <<"d", "a", "t", "e", "t", "i", "m", "e">>) \/ fieldCls(call.field) = "Timestamp"),
    typeStartsWith(TypeName, <<"p", "e", "r", "i", "o", "d">>) \/ fieldExtName(call.field) = Some("pandas.period"),
    typeStartsWith(TypeName, <<"i", "n", "t", "e", "r", "v", "a", "l">>),
    typeStartsWith(TypeName, <<"t", "i", "m", "e", "d", "e", "l", "t", "a">>),
    typeIs(TypeName, <<"d", "e", "c", "i", "m", "a", "l">>),
    (typeIs(TypeName, <<"f", "l", "o", "a", "t", "6", "4">>) \/ fieldCls(call.field) = "Float") /\ call.x.k = "number",
    typeIs(TypeName, <<"o", "b", "j", "e", "c", "t">>) \/ typeStartsWith(TypeName, <<"l", "i", "s", "t">>),
    TRUE>>

RuleBranches ==
  <<"NA", "formatDate", "formatTime", "formatDatetime", "formatPeriod", "formatInterval",
    "formatDuration", "formatDecimal", "formatFloat", "formatObject", "String">>

FirstRule == CHOOSE i \in 1..Len(Rules) : Rules[i] /\ \A j \in 1..(i - 1) : ~Rules[j]

\* The branch taken is the first rule that matches
FirstMatchWins == Branch = RuleBranches[FirstRule]

\* A logical type the claim lists as overridden by the period extension
OverriddenByPeriod ==
  \/ typeStartsWith(TypeName, <<"i", "n", "t", "e", "r", "v", "a", "l">>)
  \/ typeStartsWith(TypeName, <<"t", "i", "m", "e", "d", "e", "l", "t", "a">>)
  \/ typeIs(TypeName, <<"d", "e", "c", "i", "m", "a", "l">>)
  \/ typeIs(TypeName, <<"f", "l", "o", "a", "t", "6", "4">>)
  \/ typeIs(TypeName, <<"o", "b", "j", "e", "c", "t">>)

DateNeverPeriod ==
  (DateLike /\ (typeIs(TypeName, <<"d", "a", "t", "e">>) \/ typeStartsWith(TypeName, <<"d", "a", "t", "e", "t", "i", "m", "e">>)))
    => Branch # "formatPeriod"

\* C6 as stated: the branch is the first matching rule; a non-null value
\* whose field carries the period extension name is period-formatted even
\* under an interval, timedelta, decimal, float64 or object type; a date-like
\* value with a date or datetime type is never period-formatted.
C6_Original ==
  (Done /\ IsFormat) =>
    /\ FirstMatchWins
    /\ (~isNullish(call.x) /\ fieldExtName(call.field) = Some("pandas.period")
          /\ OverriddenByPeriod) => Branch = "formatPeriod"
    /\ DateNeverPeriod

\* C6, amended: as above, except that a date-like value whose field storage
\* type is a timestamp is datetime-formatted, period extension or not.
C6_DispatchOrder ==
  (Done /\ IsFormat) =>
    /\ FirstMatchWins
    /\ (~isNullish(call.x) /\ fieldExtName(call.field) = Some("pandas.period")
          /\ OverriddenByPeriod
          /\ ~(DateLike /\ fieldCls(call.field) = "Timestamp")) => Branch = "formatPeriod"
    /\ (~isNullish(call.x) /\ fieldExtName(call.field) = Some("pandas.period")
          /\ OverriddenByPeriod
          /\ DateLike /\ fieldCls(call.field) = "Timestamp") => Branch = "formatDatetime"
    /\ DateNeverPeriod

C6_Witness ==
  /\ Done /\ IsFormat
  /\ call.x.k = "bigint"
  /\ typeStartsWith(TypeName, <<"t", "i", "m", "e", "d", "e", "l", "t", "a">>)
  /\ fieldExtName(call.field) = Some("pandas.period")
  /\ Branch = "formatPeriod"

\* The call formatted a row under parsable interval extension metadata
IntervalCase ==
  /\ Done /\ IsFormat /\ Branch = "formatInterval"
  /\ call.x.k = "StructRow"
  /\ fieldExtName(call.field) = Some("pandas.interval")
  /\ call.field[1].extMeta # Undefined
  /\ call.field[1].extMeta[1].json

Closed == call.field[1].extMeta[1].closed
Subtype == call.field[1].extMeta[1].subtype
NoChildren == call.field[1].type.children = << >>

\* C7: the output opens with "[" iff closed is "left" or "both" (else "(")
\* and ends with "]" iff closed is "right" or "both" (else ")"), the bounds
\* separated by ", "; bounds (1, 5) give "[1, 5]" for both and "(1, 5)" for
\* neither.
C7_IntervalBrackets ==
  IntervalCase =>
    /\ ~ret.thrown
    /\ Len(ret.str) >= 4
    /\ ret.str[1] = (IF Closed \in {Some("left"), Some("both")} THEN "[" ELSE "(")
    /\ ret.str[Len(ret.str)] = (IF Closed \in {Some("right"), Some("both")} THEN "]" ELSE ")")
    /\ \E i \in 2..(Len(ret.str) - 2) : ret.str[i] = "," /\ ret.str[i + 1] = " "
    /\ (call.x = StructRow(Num(100), Num(500)) /\ Subtype = Some(T_int64) /\ NoChildren) =>
         /\ Closed = Some("both") => ret.str = <<"[", "1", ",", " ", "5", "]">>
         /\ Closed = Some("neither") => ret.str = <<"(", "1", ",", " ", "5", ")">>
         /\ Closed = Some("left") => ret.str = <<"[", "1", ",", " ", "5", ")">>
         /\ Closed = Some("right") => ret.str = <<"(", "1", ",", " ", "5", "]">>

C7_Witness ==
  IntervalCase /\ Closed = Some("both") /\ ret.str = <<"[", "1", ",", " ", "5", "]">>

\* format of one bound on its own, under the metadata subtype and child i
BoundAlone(bound, i) ==
  format(bound, Some(MkType(Subtype, Subtype)), fieldChild(call.field, i))

\* C8: the text between the brackets is format(left, subtype, child0), then
\* ", ", then format(right, subtype, child1); so a null bound renders as
\* "<NA>" and a float64 bound with four decimals.
C8_BoundsFormattedAlone ==
  IntervalCase =>
    /\ ~ret.thrown
    /\ SubSeq(ret.str, 2, Len(ret.str) - 1)
         = BoundAlone(call.x.row[1], 0).str \o <<",", " ">> \o BoundAlone(call.x.row[2], 1).str
    /\ isNullish(call.x.row[1]) => SubSeq(ret.str, 2, 5) = <<"<", "N", "A", ">">>
    /\ (call.x = StructRow(Null, Num(150)) /\ Subtype = Some(T_float64)
          /\ fieldCls(fieldChild(call.field, 1)) # "Timestamp")
         => SubSeq(ret.str, 2, Len(ret.str) - 1) = <<"<", "N", "A", ">", ",", " ", "1", ".", "5", "0", "0", "0">>

C8_Witness ==
  /\ IntervalCase
  /\ Subtype = Some(T_float64)
  /\ Len(call.field[1].type.children) = 2
  /\ call.field[1].type.children[1] # call.field[1].type.children[2]
  /\ ret.str = <<"(", "<", "N", "A", ">", ",", " ", "1", ".", "5", "0", "0", "0", "]">>

\* No frequency formatter was entered
NoFrequencyFormatter ==
  \A i \in 1..Len(ret.calls) :
    ret.calls[i] \notin FrequencyFormatters \cup {"Object.prototype.toString", "Object.prototype.valueOf"}

\* One of the cases the claim lists
RawPeriodCase ==
  \/ /\ IsFormat
     /\ \/ call.field = Undefined
        \/ call.field[1].extName = Undefined
        \/ call.field[1].extMeta = Undefined
        \/ call.field[1].extName # Some("pandas.period")
  \/ CallFreq # Undefined /\ SplitAll(CallFreq[1], "-")[1] \notin SupportedAliases
  \/ ~isSafeIntegerValue(call.x)

\* C9: a period value is rendered as its raw stringified duration, with no
\* frequency formatter invoked, when the field, the extension name or the
\* extension metadata is absent, the extension is not the period one, the
\* base frequency is not in the supported table, or the duration is not a
\* safe integer.
C9_RawPeriodFallback ==
  (Done /\ PeriodPath /\ RawPeriodCase)
    => (~ret.thrown /\ ret.str = String(call.x) /\ NoFrequencyFormatter)

IsNumberValue == call.x.k \in {"number", "NaN", "Infinity", "-Infinity"}
FloatTyped == typeIs(TypeName, <<"f", "l", "o", "a", "t", "6", "4">>) \/ fieldCls(call.field) = "Float"

\* The characters of s other than c
RECURSIVE Without(_, _)
Without(s, c) ==
  IF s = << >> THEN << >>
  ELSE (IF s[1] = c THEN << >> ELSE <<s[1]>>) \o Without(Tail(s), c)

\* s is digits grouped in threes from the right by ","
Grouped(s) ==
  /\ s # << >>
  /\ \A i \in 1..Len(s) :
       IF (Len(s) - i + 1) % 4 = 0 THEN s[i] = ","
       ELSE \E d \in 1..10 : DigitChars[d] = s[i]

\* s is [-]grouped digits, ".", four digits, and reads as the number d
FourDecimalsGrouped(s, d) ==
  LET neg == s # << >> /\ s[1] = "-"
      body == IF neg THEN Tail(s) ELSE s
  IN /\ Len(body) >= 6
     /\ body[Len(body) - 4] = "."
     /\ \A i \in (Len(body) - 3)..Len(body) : \E k \in 1..10 : DigitChars[k] = body[i]
     /\ Grouped(SubSeq(body, 1, Len(body) - 5))
     /\ neg = (d.neg /\ ~AllZero(d.mag))
     /\ Without(SubSeq(body, 1, Len(body) - 5), ",") = DigitsStr(BigShiftRight(d.mag, d.exp))
     /\ SubSeq(body, Len(body) - 3, Len(body))
          = DigitsStr(BigLowDigits(BigShiftLeft(d.mag, 4 - d.exp), 4))

FloatRendering ==
  /\ ~ret.thrown
  /\ call.x.k = "number" => FourDecimalsGrouped(ret.str, call.x.n)
  /\ call.x.k # "number" => ret.str = String(call.x)

\* C10 as stated: a number whose logical type is "float64" or whose field
\* storage type is float is rendered with four decimals and grouping when
\* finite and as its raw stringification when not, whatever the other
\* component of its type is.
C10_Original == (Done /\ IsFormat /\ IsNumberValue /\ FloatTyped) => FloatRendering

\* An earlier rule of the dispatch order claims the value
EarlierRule == \E i \in 1..8 : Rules[i]

\* C10, amended: ... provided no earlier rule of the dispatch order (date,
\* datetime, period, interval, timedelta, decimal) matches; a non-finite
\* number whose logical type is "object" or list-prefixed is JSON-serialized
\* ("null") instead.
C10_FloatRendering ==
  (Done /\ IsFormat /\ IsNumberValue /\ FloatTyped /\ ~EarlierRule) =>
    IF call.x.k # "number" /\ Rules[10]
    THEN ~ret.thrown /\ Branch = "formatObject" /\ ret.str = <<"n", "u", "l", "l">>
    ELSE FloatRendering /\ (call.x.k = "number" => Branch = "formatFloat")

C10_Witness ==
  /\ Done /\ IsFormat /\ FloatTyped /\ ~EarlierRule
  /\ call.x = Num(-123456700)
  /\ ret.str = <<"-", "1", ",", "2", "3", "4", ",", "5", "6", "7", ".", "0", "0", "0", "0">>

\* ------------------------------------------------------------ JSON rendering
ObjectPath == Done /\ IsFormat /\ Branch = "formatObject" /\ ~ret.thrown
StructField == fieldCls(call.field) = "Struct"

\* Number of occurrences of sub in s
RECURSIVE Occurrences(_, _)
Occurrences(s, sub) ==
  IF Len(s) < Len(sub) THEN 0
  ELSE (IF SubSeq(s, 1, Len(sub)) = sub THEN 1 ELSE 0) + Occurrences(Tail(s), sub)

\* The value with every null or undefined field of a dictionary removed, at
\* every depth; the elements of a list stay in place
RECURSIVE WithoutNullFields(_)
WithoutNullFields(x) ==
  LET kept(v) == IF isNullish(v) THEN Undef ELSE WithoutNullFields(v) IN
  CASE x.k = "StructRow" -> StructRow(kept(x.row[1]), kept(x.row[2]))
    [] x.k = "Array" -> Array([i \in 1..Len(x.row) |-> WithoutNullFields(x.row[i])])
    [] OTHER -> x

\* The value with every null or undefined leaf removed, the elements of its
\* lists included
RECURSIVE WithoutNullLeaves(_)
WithoutNullLeaves(x) ==
  LET kept(v) == IF isNullish(v) THEN Undef ELSE WithoutNullLeaves(v)
      present(xs) == SelectSeq(xs, LAMBDA v : ~isNullish(v))
      each(xs) == [i \in 1..Len(xs) |-> WithoutNullLeaves(xs[i])]
  IN
  CASE x.k = "StructRow" -> StructRow(kept(x.row[1]), kept(x.row[2]))
    [] x.k = "Array" -> Array(each(present(x.row)))
    [] OTHER -> x

\* The leaves of a value that JSON writes as null when nothing filters them:
\* null anywhere, undefined in a list, and the numbers that are not finite
RECURSIVE NullLeaves(_, _)
NullLeaves(x, inList) ==
  CASE x.k = "null" -> 1
    [] x.k = "undefined" -> IF inList THEN 1 ELSE 0
    [] x.k \in {"NaN", "Infinity", "-Infinity"} -> 1
    [] x.k = "StructRow" -> NullLeaves(x.row[1], FALSE) + NullLeaves(x.row[2], FALSE)
    [] x.k = "Array" ->
         IF x.row = << >> THEN 0
         ELSE NullLeaves(x.row[1], TRUE) + NullLeaves(Array(Tail(x.row)), FALSE)
    [] OTHER -> 0

NullsWritten == Occurrences(ret.str, <<"n", "u", "l", "l">>) = NullLeaves(call.x, FALSE)

BigIntsAsNumbers ==
  /\ call.x = StructRow(BigInt(5), BigIntD(FALSE, TwoPow53)) =>
       ret.str = <<"{", "\"", "l", "e", "f", "t", "\"", ":", "5", ",", "\"", "r", "i", "g", "h", "t", "\"", ":", "9", "0", "0", "7", "1", "9", "9", "2", "5", "4", "7", "4", "0", "9", "9", "2", "}">>
  /\ call.x = BigInt(3661) => ret.str = <<"3", "6", "6", "1">>

\* C11 as stated: under a struct field every null or undefined leaf is left
\* out of the JSON text, at any depth and inside lists; under any other
\* field null leaves are written as null; big integers are written as
\* ordinary numbers.
C11_Original ==
  ObjectPath =>
    /\ StructField => ret.str = JSONstringify(WithoutNullLeaves(call.x), FALSE)
    /\ ~StructField => NullsWritten
    /\ BigIntsAsNumbers

\* C11, amended: under a struct field every null or undefined field of a
\* dictionary is left out of the JSON text, at any depth, and every other
\* leaf is written as without the filter ({left: null, right: 1.5} gives
\* {"right":1.5}); a null or undefined element of a list is written as null
\* under either kind of field; under a field that is not a struct null leaves
\* are written as null; big integers are written as ordinary numbers.
C11_StructDropsNullFields ==
  ObjectPath =>
    /\ StructField => ret.str = JSONstringify(WithoutNullFields(call.x), FALSE)
    /\ ~StructField => NullsWritten
    /\ BigIntsAsNumbers
    /\ (StructField /\ call.x = StructRow(Null, Num(150))) => ret.str = <<"{", "\"", "r", "i", "g", "h", "t", "\"", ":", "1", ".", "5", "}">>
    /\ (StructField /\ call.x = StructRow(Null, Array(<<Num(100), Null, BigInt(5)>>))) =>
         ret.str = <<"{", "\"", "r", "i", "g", "h", "t", "\"", ":", "[", "1", ",", "n", "u", "l", "l", ",", "5", "]", "}">>

C11_Witness ==
  /\ ObjectPath /\ StructField
  /\ call.x = StructRow(StructRow(Null, Num(100)), StructRow(Undef, Null))
  /\ ret.str = <<"{", "\"", "l", "e", "f", "t", "\"", ":", "{", "\"", "r", "i", "g", "h", "t", "\"", ":", "1", "}", ",", "\"", "r", "i", "g", "h", "t", "\"", ":", "{", "}", "}">>

\* ------------------------------------------------------------ unit converter
IsConvert == call.fn = "convertTimestampToSeconds"
ConvertDone == Done /\ IsConvert /\ ~ret.thrown /\ ret.num.k = "number"
CallUnit == call.unit[1]

\* The decimal exponent of the divisor that a unit code stands for
UnitExponent(unit) ==
  CASE unit = TimeUnit_SECOND -> 0
    [] unit = TimeUnit_MILLISECOND -> 3
    [] unit = TimeUnit_MICROSECOND -> 6
    [] unit = TimeUnit_NANOSECOND -> 9
    [] OTHER -> 0

BeyondSafe(x) == x.k = "bigint" /\ BigLess(MAX_SAFE_INTEGER, x.n.mag)

\* q * 10^k = x
ExactQuotient(q, x, k) == NumToStr(DecShiftLeft(q, k)) = NumToStr(x)

\* q is the integer x / 10^k truncated toward zero: the digits of x without
\* the last k, under the sign of x
IntegerQuotient(q, x, k) ==
  /\ q.exp = 0
  /\ q.mag # <<0>> => q.neg = x.neg
  /\ IF Len(x.mag) <= k THEN q.mag = <<0>>
     ELSE Len(x.mag) = Len(q.mag) + k /\ SubSeq(x.mag, 1, Len(q.mag)) = q.mag

\* C12: convertTimestampToSeconds returns the quotient of the value by 1,
\* 10^3, 10^6 or 10^9 for the units SECOND, MILLISECOND, MICROSECOND and
\* NANOSECOND, and the value itself, as a number, for every other unit code;
\* 1000 in milliseconds and 1000000000 in nanoseconds both give 1.
C12_DividesByUnit ==
  (Done /\ IsConvert) =>
    /\ ConvertDone
    /\ \/ ExactQuotient(ret.num.n, call.x.n, UnitExponent(CallUnit))
       \/ /\ BeyondSafe(call.x)
          /\ IntegerQuotient(ret.num.n, call.x.n, UnitExponent(CallUnit))
    /\ CallUnit \notin {TimeUnit_MILLISECOND, TimeUnit_MICROSECOND, TimeUnit_NANOSECOND} =>
         String(ret.num) = String(call.x)
    /\ (call.x = Num(100000) /\ CallUnit = TimeUnit_MILLISECOND) => String(ret.num) = <<"1">>
    /\ (call.x = BigInt(1000000000) /\ CallUnit = TimeUnit_NANOSECOND) =>
         String(ret.num) = <<"1">>

C12_Witness ==
  /\ ConvertDone
  /\ call.x = BigInt(1500) /\ CallUnit = TimeUnit_MICROSECOND
  /\ String(ret.num) = <<"0", ".", "0", "0", "1", "5">>

SubSecondUnit == CallUnit \in {TimeUnit_MILLISECOND, TimeUnit_MICROSECOND, TimeUnit_NANOSECOND}

\* C13: for a bigint beyond the safe-integer threshold and a unit of
\* milliseconds, microseconds or nanoseconds, convertTimestampToSeconds
\* returns the integer quotient by the unit's divisor, truncated toward zero,
\* and does not throw; for every value within the safe-integer range the
\* fractional part of the quotient is kept.
C13_BigIntQuotient ==
  (Done /\ IsConvert /\ SubSecondUnit) =>
    /\ ConvertDone
    /\ IF BeyondSafe(call.x)
       THEN IntegerQuotient(ret.num.n, call.x.n, UnitExponent(CallUnit))
       ELSE ExactQuotient(ret.num.n, call.x.n, UnitExponent(CallUnit))
    /\ (call.x = BigIntD(TRUE, <<9, 0, 0, 7, 1, 9, 9, 2, 5, 4, 7, 4, 2, 9, 9, 4>>) /\ CallUnit = TimeUnit_MILLISECOND) =>
         String(ret.num) = <<"-", "9", "0", "0", "7", "1", "9", "9", "2", "5", "4", "7", "4", "2">>
    /\ (call.x = BigInt(-1500) /\ CallUnit = TimeUnit_MILLISECOND) =>
         String(ret.num) = <<"-", "1", ".", "5">>

C13_Witness ==
  /\ ConvertDone
  /\ call.x = BigIntD(FALSE, <<9, 0, 0, 7, 1, 9, 9, 2, 5, 4, 7, 4, 2, 9, 9, 4>>) /\ CallUnit = TimeUnit_NANOSECOND
  /\ String(ret.num) = <<"9", "0", "0", "7", "1", "9", "9">>

\* --------------------------------------------------------------- time of day
TimeTyped == TypeName = Some(T_time)
TimeCase == Done /\ IsFormat /\ call.x.k = "bigint" /\ TimeTyped

\* The decimal exponent of the field's unit, seconds when it declares none
FieldExponent == IF fieldUnit(call.field) = Undefined THEN 0
                 ELSE UnitExponent(fieldUnit(call.field)[1])

WholeSeconds == AllZero(BigLowDigits(call.x.n.mag, FieldExponent))

\* The instant of the value is one a Date can hold (at most 10^8 days from
\* the epoch)
TimeInDateRange ==
  validMs(DecTrunc(DecShiftLeft(DecShiftRight(call.x.n, FieldExponent), 3)))

IsDigit(c) == \E i \in 1..10 : DigitChars[i] = c

IsHHmmss(s) ==
  /\ Len(s) = 8
  /\ \A i \in {1, 2, 4, 5, 7, 8} : IsDigit(s[i])
  /\ s[3] = ":" /\ s[6] = ":"

IsHHmmssSSS(s) ==
  /\ Len(s) = 12
  /\ IsHHmmss(SubSeq(s, 1, 8))
  /\ s[9] = "."
  /\ \A i \in 10..12 : IsDigit(s[i])

TimeRendering ==
  /\ ~ret.thrown
  /\ Branch = "formatTime"
  /\ IF WholeSeconds THEN IsHHmmss(ret.str) ELSE IsHHmmssSSS(ret.str)

NotTimeFormatted ==
  (Done /\ IsFormat /\ call.x.k # "bigint" /\ TimeTyped) =>
    \A i \in 1..Len(ret.calls) : ret.calls[i] # "formatTime"

\* C14 as stated: a bigint whose logical type is "time" is rendered as
\* HH:mm:ss when it is a whole number of seconds in the field's unit and as
\* HH:mm:ss.SSS when its sub-second remainder is not zero; a value that is
\* not a bigint is never time-formatted under the logical type "time".
C14_Original ==
  /\ TimeCase => TimeRendering
  /\ NotTimeFormatted

\* C14, amended: ... provided the bigint is within the safe-integer range and
\* its instant is one a Date can hold, as every time of day is; beyond the
\* range of Date the text is "Invalid date".
C14_TimeOfDay ==
  /\ (TimeCase /\ ~BeyondSafe(call.x)) =>
       IF TimeInDateRange THEN TimeRendering
       ELSE ~ret.thrown /\ Branch = "formatTime" /\ ret.str = InvalidDate
  /\ (TimeCase /\ call.x = BigInt(3661) /\ FieldExponent = 0) => ret.str = <<"0", "1", ":", "0", "1", ":", "0", "1">>
  /\ (TimeCase /\ call.x = BigInt(86399999) /\ FieldExponent = 3) =>
       ret.str = <<"2", "3", ":", "5", "9", ":", "5", "9", ".", "9", "9", "9">>
  /\ NotTimeFormatted

C14_Witness ==
  /\ TimeCase
  /\ call.x = BigInt(1500) /\ FieldExponent = 3
  /\ ret.str = <<"0", "0", ":", "0", "0", ":", "0", "1", ".", "5", "0", "0">>

\* -------------------------------------------------------------- default units
NoUnitDeclared == fieldUnit(call.field) = Undefined
DeclaredUnit == fieldUnit(call.field)[1]

\* The call went to the formatter and handed unit to the unit converter
ConvertedAs(formatter, unit) ==
  /\ ~ret.thrown
  /\ Branch = formatter
  /\ ret.units = <<unit>>

\* C15: when the field declares no temporal unit, or there is no field, a
\* time value is converted as seconds and a timedelta value as nanoseconds;
\* when the field declares a unit, that unit is handed to the unit converter
\* for both.
C15_DefaultUnits ==
  /\ (Done /\ IsFormat /\ Len(ret.calls) > 0 /\ Branch = "formatTime") =>
       /\ ConvertedAs("formatTime", IF NoUnitDeclared THEN TimeUnit_SECOND ELSE DeclaredUnit)
       /\ (NoUnitDeclared /\ call.x = BigInt(1500)) => ret.str = <<"0", "0", ":", "2", "5", ":", "0", "0">>
  /\ (Done /\ IsFormat /\ Len(ret.calls) > 0 /\ Branch = "formatDuration") =>
       /\ ConvertedAs("formatDuration",
                      IF NoUnitDeclared THEN TimeUnit_NANOSECOND ELSE DeclaredUnit)
       /\ (NoUnitDeclared /\ call.x = BigInt(3661)) => ret.str = <<"a", " ", "f", "e", "w", " ", "s", "e", "c", "o", "n", "d", "s">>
       /\ (~NoUnitDeclared /\ DeclaredUnit = TimeUnit_SECOND /\ call.x = BigInt(3661)) =>
            ret.str = <<"a", "n", " ", "h", "o", "u", "r">>

C15_Witness ==
  /\ Done /\ IsFormat /\ call.field = Undefined
  /\ call.x = BigInt(86399999)
  /\ ConvertedAs("formatDuration", TimeUnit_NANOSECOND)
  /\ ret.str = <<"a", " ", "f", "e", "w", " ", "s", "e", "c", "o", "n", "d", "s">>

C15_WitnessDeclared ==
  /\ Done /\ IsFormat /\ ~NoUnitDeclared /\ DeclaredUnit = TimeUnit_MILLISECOND
  /\ call.x = BigInt(86399999)
  /\ ConvertedAs("formatTime", TimeUnit_MILLISECOND)

\* ------------------------------------------------------- quarters and weeks
\* A call that reaches a frequency formatter with a safe-integer duration
SafeDuration == isSafeIntegerValue(call.x)
PeriodDone == Done /\ call.fn = "formatPeriodFromFreq" /\ SafeDuration
\* The duration, when a machine integer holds it
SmallDuration == Len(call.x.n.mag) <= 9
N == SignedNat(DecTrunc(call.x.n))

QuarterFreq == call.freq \in {Some(<<"Q">>), Some(<<"Q", "-", "D", "E", "C">>)}

MatchesQuarterPattern(s) ==
  /\ Len(s) = 6
  /\ \A i \in 1..4 : IsDigit(s[i])
  /\ s[5] = "Q"
  /\ s[6] \in {"1", "2", "3", "4"}

\* C16: for every safe-integer duration N, the quarter frequency "Q", with or
\* without a parameter, renders the year 1970 + floor(N / 4), "Q" and the
\* quarter number (N mod 4) + 1: the text always matches YYYY"Q"[1-4], and
\* duration 0 gives "1970Q1".
C16_QuarterOfEverySafeInteger ==
  (PeriodDone /\ QuarterFreq) =>
    /\ ~ret.thrown
    /\ MatchesQuarterPattern(ret.str)
    /\ SmallDuration =>
         ret.str = NatToStr(1970 + (N \div 4)) \o <<"Q">> \o NatToStr((N % 4) + 1)
    /\ call.x = BigInt(0) => ret.str = <<"1", "9", "7", "0", "Q", "1">>

WeekFreq == call.freq \in {Some(<<"W", "-", "S", "U", "N">>), Some(<<"W", "-", "T", "H", "U">>)}
WeekdayParam == indexOf(WEEKDAY_SHORT, split2(call.freq[1], "-")[2])

DigitOf(c) == IndexFrom(DigitChars, c, 1) - 1
NatOf(s) == DigitsNat([i \in 1..Len(s) |-> DigitOf(s[i])])

IsISODate(s) ==
  /\ Len(s) = 10
  /\ \A i \in {1, 2, 3, 4, 6, 7, 9, 10} : IsDigit(s[i])
  /\ s[5] = "-" /\ s[8] = "-"

\* The day number of a YYYY-MM-DD date and its weekday, Sunday being 0
DayOfISODate(s) ==
  daysFromCivil(NatOf(SubSeq(s, 1, 4)), NatOf(SubSeq(s, 6, 7)), NatOf(SubSeq(s, 9, 10)))
Weekday(day) == (day + 4) % 7

IsWeekRange(s) ==
  /\ Len(s) = 21
  /\ IsISODate(SubSeq(s, 1, 10))
  /\ s[11] = "/"
  /\ IsISODate(SubSeq(s, 12, 21))

\* C17: for every safe-integer duration N and every weekday parameter D of
\* SUN..SAT, the week frequency "W-D" renders start/end where end falls on
\* weekday D and start is exactly 6 days before end; "W-SUN" at duration 0
\* ends on a Sunday.
C17_WeekOfEverySafeInteger ==
  (PeriodDone /\ WeekFreq) =>
    /\ ~ret.thrown
    /\ IsWeekRange(ret.str)
    /\ Weekday(DayOfISODate(SubSeq(ret.str, 12, 21))) = WeekdayParam
    /\ DayOfISODate(SubSeq(ret.str, 12, 21)) - DayOfISODate(SubSeq(ret.str, 1, 10)) = 6
    /\ (call.x = BigInt(0) /\ call.freq = Some(<<"W", "-", "S", "U", "N">>)) =>
         ret.str = <<"1", "9", "6", "9", "-", "1", "2", "-", "2", "2", "/", "1", "9", "6", "9", "-", "1", "2", "-", "2", "8">>

\* ------------------------------------------------------ decimal separator
DecimalCase == Done /\ IsFormat /\ Len(ret.calls) > 0 /\ Branch = "formatDecimal"
HasSeparator(s) == \E i \in 1..Len(s) : s[i] = "."
\* The last s digits of the unscaled integer are all zero
WholeNumber == AllZero(BigLowDigits(call.x.n.mag, CallScale))

\* C18: formatDecimal writes no fractional separator when the scale is 0 or
\* absent (the digits with their sign are returned as they are) or when the
\* last scale digits of the unscaled integer are all zero; otherwise the
\* fraction never ends in "0"; the text never ends with ".".
C18_NoTrailingZeros ==
  DecimalCase =>
    /\ ~ret.thrown
    /\ CallScale = 0 => ret.str = SIntStr(call.x.n)
    /\ HasSeparator(ret.str) <=> (CallScale > 0 /\ ~WholeNumber)
    /\ HasSeparator(ret.str) => ret.str[Len(ret.str)] \notin {"0", "."}
    /\ Len(ret.str) > 0 /\ ret.str[Len(ret.str)] # "."

C18_Witness ==
  /\ DecimalCase
  /\ call.x = Uint32Array(-120) /\ CallScale = 2
  /\ ret.str = <<"-", "1", ".", "2">>

\* ------------------------------------------------------ datetime and zones
DatetimeTyped == typeStartsWith(TypeName, <<"d", "a", "t", "e", "t", "i", "m", "e">>) \/ fieldCls(call.field) = "Timestamp"
DatetimeCase == Done /\ IsFormat /\ DateLike /\ DatetimeTyped

\* The field names a timezone: a designator that is not the empty string
HasTimezone == fieldTimezone(call.field) # Undefined /\ fieldTimezone(call.field)[1] # ""
Designator == fieldTimezone(call.field)[1]

\* The offset in minutes that the designator gives: by zone lookup when it
\* names a zone of the tz database, as a numeric offset otherwise
DesignatedOffset ==
  IF Designator \in KnownZones THEN zoneOffset(Designator) ELSE offsetFromString(Designator)

IsDatetime(s) ==
  /\ Len(s) = 19
  /\ IsISODate(SubSeq(s, 1, 10))
  /\ s[11] = " "
  /\ IsHHmmss(SubSeq(s, 12, 19))

NoOffsetSuffix == IsDatetime(ret.str)

OffsetSuffix ==
  /\ Len(ret.str) = 25
  /\ IsDatetime(SubSeq(ret.str, 1, 19))
  /\ SubSeq(ret.str, 20, 25) = fmtZ(DesignatedOffset)

Leap2000 == DateObj(FALSE, <<9, 5, 1, 8, 2, 7, 6, 9, 6, 7, 8, 9>>)

DatetimeExamples ==
  call.x = Leap2000 =>
    /\ ~HasTimezone => ret.str = <<"2", "0", "0", "0", "-", "0", "2", "-", "2", "9", " ", "1", "2", ":", "3", "4", ":", "5", "6">>
    /\ (HasTimezone /\ Designator = "UTC") => ret.str = <<"2", "0", "0", "0", "-", "0", "2", "-", "2", "9", " ", "1", "2", ":", "3", "4", ":", "5", "6", "+", "0", "0", ":", "0", "0">>
    /\ (HasTimezone /\ Designator = "Asia/Kolkata") => ret.str = <<"2", "0", "0", "0", "-", "0", "2", "-", "2", "9", " ", "1", "8", ":", "0", "4", ":", "5", "6", "+", "0", "5", ":", "3", "0">>
    /\ (HasTimezone /\ Designator = "+0500") => ret.str = <<"2", "0", "0", "0", "-", "0", "2", "-", "2", "9", " ", "1", "7", ":", "3", "4", ":", "5", "6", "+", "0", "5", ":", "0", "0">>
    /\ (HasTimezone /\ Designator = "-03:30") => ret.str = <<"2", "0", "0", "0", "-", "0", "2", "-", "2", "9", " ", "0", "9", ":", "0", "4", ":", "5", "6", "-", "0", "3", ":", "3", "0">>
    /\ (HasTimezone /\ Designator = "Mars/Olympus") => ret.str = <<"2", "0", "0", "0", "-", "0", "2", "-", "2", "9", " ", "1", "2", ":", "3", "4", ":", "5", "6", "+", "0", "0", ":", "0", "0">>

DatetimeRendering ==
  /\ ~ret.thrown
  /\ Branch = "formatDatetime"
  /\ IF HasTimezone THEN OffsetSuffix ELSE NoOffsetSuffix
  /\ DatetimeExamples

\* C19 as stated: a date-like value whose logical type is prefixed
\* "datetime" or whose storage is a timestamp is rendered in UTC with no
\* offset suffix when the field has no timezone and with a numeric UTC offset
\* suffix when it has one; the designator is applied by zone lookup iff it
\* names a known zone and as a numeric offset otherwise.
C19_Original == DatetimeCase => DatetimeRendering

\* The value is an instant a Date can hold
DatetimeInRange == validMs(dateMs(call.x))

\* C19, amended: ... provided the logical type is not "date" (the date rule
\* comes first and renders the day alone) and the value is an instant a Date
\* can hold (beyond it the text is "Invalid date"); an empty designator
\* counts as no timezone; a designator that names neither a zone nor an
\* offset leaves the value in UTC with the suffix +00:00.
C19_DatetimeZone ==
  DatetimeCase =>
    IF TypeName = Some(T_date) THEN ~ret.thrown /\ Branch = "formatDate"
    ELSE IF ~DatetimeInRange
      THEN ~ret.thrown /\ Branch = "formatDatetime" /\ ret.str = InvalidDate
    ELSE DatetimeRendering

C19_Witness ==
  /\ DatetimeCase /\ TypeName # Some(T_date)
  /\ call.x = Leap2000
  /\ HasTimezone /\ Designator = "Asia/Kolkata"
  /\ ret.str = <<"2", "0", "0", "0", "-", "0", "2", "-", "2", "9", " ", "1", "8", ":", "0", "4", ":", "5", "6", "+", "0", "5", ":", "3", "0">>

\* --------------------------------------------------------------------- purity
\* The call that completes had its arguments before
Repeated == pc' = "done" /\ call'.fn = "format" /\ prior' # Undefined

SameOutcome == ret'.thrown = prior'[1].thrown /\ ret'.str = prior'[1].str

\* A call changes nothing but its outcome (and the log, counted in it)
CallStep == pc = "call" /\ pc' = "done"

\* C20: format is a pure function of its arguments: two calls with equal
\* value, type and field return equal strings, whatever calls were made in
\* between and whatever the ambient state is (no cache, no dependence on the
\* process's local time zone), and a call changes no state other than the
\* diagnostic log.
C20_PureFunction ==
  [][/\ Repeated => SameOutcome
     /\ CallStep => (zone' = zone /\ call' = call /\ prior' = prior)]_vars
\* ------------------------------------------------------- claims C21 .. C30

DoneOf(fn) == pc = "done" /\ call.fn = fn
PandasIs(names) == call.type[1].pandas_type[1] \in names
NumpyIs(names) == call.type[1].numpy_type[1] \in names
IntegerNames == SignedIntegerNames \cup UnsignedIntegerNames \cup {T_range}

\* C21: isIntegerType is true exactly for the types whose normalized type is a
\* signed or unsigned fixed-width integer or "range": a logical type of that
\* family, or the logical type "object" with storage of that family.  It is
\* false for floats, strings, booleans, categoricals with integer storage and
\* intervals with an integer subtype.
C21_IntegerFamily ==
  DoneOf("isIntegerType") =>
    /\ ret.thrown = FALSE
    /\ ret.num = Bool(\/ PandasIs(IntegerNames)
                      \/ PandasIs({T_object}) /\ NumpyIs(IntegerNames))
    /\ PandasIs({T_float64, T_unicode, <<"b", "o", "o", "l">>, T_categorical}) => ret.num = Bool(FALSE)
    /\ PandasIs({T_object}) /\ NumpyIs({T_interval}) => ret.num = Bool(FALSE)

\* An "object" column with int16 storage was classified as an integer column
C21_Witness ==
  /\ DoneOf("isIntegerType")
  /\ PandasIs({T_object}) /\ NumpyIs({<<"i", "n", "t", "1", "6">>})
  /\ ret.num = Bool(TRUE)

\* The storage types of the period, decimal, timedelta, dictionary-encoded and
\* interval columns
FamilyStorageNames ==
  {T_period, T_decimal, T_timedelta, T_object, T_interval,
   <<"i", "n", "t", "e", "r", "v", "a", "l", "[", "d", "a", "t", "e", "t", "i", "m", "e", "6", "4", "[", "n", "s", "]", ",", " ", "r", "i", "g", "h", "t", "]">>}
\* The logical types pandas knows
KnownLogicalNames == LogicalNames \ {<<"m", "i", "x", "e", "d">>}

MetaOfCall == call.type[1].meta

\* C23: getTimezone never throws and validates nothing: it returns
\* meta.timezone unchanged when the type carries one, whatever it names, and
\* undefined when meta is absent or has no timezone.
C23_TimezoneVerbatim ==
  DoneOf("getTimezone") =>
    /\ ret.thrown = FALSE
    /\ MetaOfCall = Undefined => ret.num = Undef
    /\ MetaOfCall # Undefined /\ MetaOfCall[1].timezone = Undefined => ret.num = Undef
    /\ \A tz \in {<<"U", "T", "C">>, <<"A", "m", "e", "r", "i", "c", "a", "/", "N", "e", "w", "_", "Y", "o", "r", "k">>, <<"+", "0", "5", ":", "3", "0">>, <<"M", "a", "r", "s", "/", "O", "l", "y", "m", "p", "u", "s">>, << >>} :
         MetaOfCall = Some(MkMeta(Some(tz))) => ret.num = StrVal(tz)

\* A timezone that names no zone was returned as it stands
C23_Witness ==
  /\ DoneOf("getTimezone")
  /\ MetaOfCall = Some(MkMeta(Some(<<"M", "a", "r", "s", "/", "O", "l", "y", "m", "p", "u", "s">>)))
  /\ ret.num = StrVal(<<"M", "a", "r", "s", "/", "O", "l", "y", "m", "p", "u", "s">>)

\* format on a value whose logical type is interval-prefixed and whose field
\* is absent, has no extension name, or names another extension
IntervalWithoutExtension ==
  /\ Done /\ IsFormat
  /\ typeStartsWith(TypeName, <<"i", "n", "t", "e", "r", "v", "a", "l">>)
  /\ fieldExtName(call.field) # Some("pandas.interval")

\* The raw string conversion of the value, reached through formatInterval,
\* with nothing thrown and nothing logged
RawInterval ==
  /\ ~ret.thrown
  /\ ret.str = String(call.x)
  /\ ret.calls = <<"formatInterval">>
  /\ ret.warns = 0

\* C24 as stated: every such call returns String(value).
C24_Original == IntervalWithoutExtension => RawInterval

\* C24, amended: when the logical type is interval-prefixed and the field is
\* absent, has no extension name, or names an extension other than the
\* interval extension, format returns String(value) without parsing any
\* extension metadata and without reading the value's fields, provided no
\* earlier rule of the dispatch order applies: the value is not null or
\* undefined, it is not a date-like value of a timestamp field, and the
\* extension named is not the period extension.
C24_RawIntervalFallback ==
  (/\ IntervalWithoutExtension
   /\ ~isNullish(call.x)
   /\ ~(DateLike /\ fieldCls(call.field) = "Timestamp")
   /\ fieldExtName(call.field) # Some("pandas.period"))
    => RawInterval

\* A number, which has no fields to read, under a field that names another
\* extension and carries metadata that does not parse, came out as its raw
\* string
C24_Witness ==
  /\ IntervalWithoutExtension
  /\ call.x.k = "number"
  /\ fieldExtName(call.field) = Some("other.ext")
  /\ call.field[1].extMeta = Some(BadJson)
  /\ RawInterval

\* C25: no view is leaked under any interleaving of createView and
\* finalizeView calls: every view embed has created and whose finalizer was
\* not called is the view the hook references.
C25_NoViewLeaked ==
  \A v \in 1..Len(views) : ~views[v].finalized => (v = vegaView /\ v = vegaFinalizer)

UpdateViewOnLiveView == vegaView # 0 /\ UpdateView

\* C26: at the start of every updateView call that finds a live view, the
\* refs dataRef and datasetsRef hold the data and datasets most recently
\* loaded into that view.
C26_PreviousDataIsLoaded ==
  [][UpdateViewOnLiveView => Loaded(dataRef, datasetsRef) = loaded]_vars

isEmpty(data) == data = Undefined \/ data[1].numRows = 0

\* updateData has returned
Updated == updateCall # Undefined /\ updateCall[1].ops # Undefined
Op(op, from) == Some(<<ViewOp(op, updateCall[1].name, from)>>)

\* C27: updateData applies exactly one of four actions to the named dataset:
\* it removes the dataset's rows when the new data is absent or has no rows;
\* else it inserts all new rows when the previous data is absent or empty;
\* else, when the new data is an append of the previous data, it inserts the
\* rows from index prevNumRows on, and nothing when there are none; otherwise
\* it replaces the whole dataset.
C27_OneOfFourActions ==
  Updated =>
    LET c == updateCall[1] IN
    IF isEmpty(c.data) THEN Some(c.ops) = Op("remove", 0)
    ELSE IF isEmpty(c.prevData) THEN Some(c.ops) = Op("insert", 0)
    ELSE IF c.isAppend
    THEN IF c.data[1].numRows > c.prevData[1].numRows
         THEN Some(c.ops) = Op("insert", c.prevData[1].numRows)
         ELSE c.ops = << >>
    ELSE Some(c.ops) = Op("data", 0)

\* A table of two rows that appends to a table of one row had its second row
\* inserted
C27_Witness ==
  /\ Updated
  /\ updateCall[1].prevData = Some(Quiver(1, 1))
  /\ updateCall[1].data = Some(Quiver(2, 1))
  /\ updateCall[1].isAppend
  /\ updateCall[1].ops = <<ViewOp("insert", updateCall[1].name, 1)>>

\* The table is mounted
Mounted == sizerProps # Undefined /\ resizableSize # Undefined

HeightWithin(p) == initialHeight(p) <= maxHeight(p)
ContainerBounds(p) ==
  initialHeight(p) <= p.containerHeight[1] /\ maxHeight(p) <= p.containerHeight[1]
WidthBounds(p) ==
  /\ p.width # 0 =>
       /\ initialWidth(p) # Undefined
       /\ initialWidth(p)[1] >= minWidth(p)
       /\ initialWidth(p)[1] <= Max(p.containerWidth, minWidth(p))
  /\ maxWidth(p) <= Max(p.containerWidth, minWidth(p))

\* C28 as stated: the container's height bounds both heights whenever one is
\* given.
C28_Original ==
  Mounted =>
    /\ HeightWithin(sizerProps[1])
    /\ sizerProps[1].containerHeight # Undefined => ContainerBounds(sizerProps[1])
    /\ WidthBounds(sizerProps[1])

\* C28, amended: for all element and container inputs the initial height
\* never exceeds maxHeight; when a container height other than 0 is given
\* neither the initial height nor maxHeight exceeds it; an explicitly
\* configured width yields an initial width within
\* [minWidth, max(containerWidth, minWidth)]; and maxWidth never exceeds
\* max(containerWidth, minWidth).
C28_SizeBounds ==
  Mounted =>
    /\ HeightWithin(sizerProps[1])
    /\ (/\ sizerProps[1].containerHeight # Undefined
        /\ sizerProps[1].containerHeight # Some(0)) => ContainerBounds(sizerProps[1])
    /\ WidthBounds(sizerProps[1])

\* A table configured 5000 high and 2000 wide, in a container 50 high whose
\* width is -1, is mounted 50 high and minWidth wide
C28_Witness ==
  /\ Mounted
  /\ sizerProps[1].height = 5000 /\ sizerProps[1].containerHeight = Some(50)
  /\ sizerProps[1].width = 2000 /\ sizerProps[1].containerWidth = -1
  /\ ~sizerProps[1].useContainerWidth /\ ~sizerProps[1].isFullScreen
  /\ resizableSize[1] = ResizableSize(Px(minWidth(sizerProps[1])), 50)
  /\ maxHeight(sizerProps[1]) = 50

\* The handler has run
KeyHandled == keyEvent # Undefined /\ keyCalls # << >>
KeyCalled(name) == \E i \in 1..Len(keyCalls) : keyCalls[i] = name
\* An Enter key press that is not part of a composition, with the command
\* key held if it is required
EnterPress ==
  /\ keyEvent[1].key = "Enter" \/ keyEvent[1].keyCode \in {13, 10}
  /\ keyEvent[1].nativeEvent # Some([isComposing |-> TRUE])
  /\ keyEvent[1].requireCommandKey => (keyEvent[1].metaKey \/ keyEvent[1].ctrlKey)

\* C29: the key handler calls submitForm only on an Enter key press (key
\* "Enter" or keyCode 13 or 10) that is not part of an IME composition, with
\* the meta or ctrl key held if requireCommandKey is set, and with
\* allowFormEnterToSubmit(formId) true; on such a press commitWidgetValue is
\* called iff callCommitWidgetValue is set, and always before submitForm; for
\* every other event neither callback nor preventDefault is called.
C29_SubmitOnEnter ==
  KeyHandled =>
    /\ KeyCalled("submitForm") <=> (EnterPress /\ keyEvent[1].allowFormEnterToSubmit)
    /\ KeyCalled("commitWidgetValue") <=> (EnterPress /\ keyEvent[1].callCommitWidgetValue)
    /\ \A i, j \in 1..Len(keyCalls) :
         (keyCalls[i] = "commitWidgetValue" /\ keyCalls[j] = "submitForm") => i < j
    /\ ~EnterPress =>
         ~(KeyCalled("submitForm") \/ KeyCalled("commitWidgetValue")
           \/ KeyCalled("preventDefault"))

\* A key that is not named Enter but carries keyCode 10, with ctrl held as
\* required, committed the value and then submitted the form
C29_Witness ==
  /\ KeyHandled
  /\ keyEvent[1].key = "a" /\ keyEvent[1].keyCode = 10
  /\ keyEvent[1].requireCommandKey /\ keyEvent[1].ctrlKey /\ ~keyEvent[1].metaKey
  /\ keyCalls = <<"console.log", "preventDefault", "commitWidgetValue", "submitForm">>

\* The new value is longer than a non-zero maxChars
TooLong ==
  changeEvent[1].maxChars # 0 /\ Len(changeEvent[1].value) > changeEvent[1].maxChars

\* C30: the change handler calls no setter and leaves dirty, the UI value
\* and the widget value as they were when maxChars is non-zero and the new
\* value is longer than maxChars; otherwise it marks the input dirty, sets
\* the UI value to the new value, and sets the widget value to the new value
\* with fromUi true iff the input belongs to a form.
C30_ChangeHandled ==
  [][OnInputChange =>
       IF TooLong
       THEN /\ changeEvent'[1].calls = Some(<< >>)
            /\ UNCHANGED <<dirty, uiValue, valueWithSource>>
       ELSE /\ dirty' = TRUE
            /\ uiValue' = changeEvent[1].value
            /\ IF changeEvent[1].inForm
               THEN valueWithSource' = Some(ValueWithSource(changeEvent[1].value, TRUE))
               ELSE /\ UNCHANGED valueWithSource
                    /\ \A i \in 1..Len(changeEvent'[1].calls[1]) :
                         changeEvent'[1].calls[1][i].fn # "setValueWithSource"]_vars

\* A value of four characters against maxChars 3 left a clean input showing
\* "a" as it was
C30_Witness ==
  /\ changeEvent # Undefined
  /\ changeEvent[1].calls = Some(<< >>)
  /\ changeEvent[1].value = <<"a", "b", "c", "d">> /\ changeEvent[1].maxChars = 3
  /\ ~dirty /\ uiValue = <<"a">> /\ valueWithSource = Some(ValueWithSource(<<"a">>, FALSE))
=============================================================================
